---- MODULE Spec2Model ----
(***************************************************************************)
(* ttgen - truth table generator for boolean logic expressions.            *)
(*                                                                         *)
(* Model of the shunting-yard program (src/unnamed/part_000, lines 1-454): *)
(* the tokenizer next_token, the variable registry, the infix-to-postfix   *)
(* conversion in main, the postfix evaluator and the table driver.         *)
(*                                                                         *)
(* Text is modelled character by character: a C string is a sequence of    *)
(* one-character strings, a char * into the input buffer is an index into  *)
(* that sequence (0 is the NULL pointer, Len + 1 is the terminating NUL).  *)
(***************************************************************************)
EXTENDS Integers, Sequences, FiniteSets, TLC

(***************************************************************************)
(* Characters and C library helpers                                        *)
(***************************************************************************)

\* #define WHITESPACE " \n\t"
WHITESPACE == {" ", "\n", "\t"}

LowerChars ==
  <<"a","b","c","d","e","f","g","h","i","j","k","l","m",
    "n","o","p","q","r","s","t","u","v","w","x","y","z">>

UpperChars ==
  <<"A","B","C","D","E","F","G","H","I","J","K","L","M",
    "N","O","P","Q","R","S","T","U","V","W","X","Y","Z">>

\* #define LETTER "abc...zABC...Z"
LETTER == {LowerChars[i] : i \in 1..26} \cup {UpperChars[i] : i \in 1..26}

\* #define NUMBER "0123456789"
NUMBER == {"0","1","2","3","4","5","6","7","8","9"}

\* the accept set of strspn(input_ptr, LETTER NUMBER "_'")
WordChars == LETTER \cup NUMBER \cup {"_", "'"}

\* isalpha() in the C locale
isalpha(c) == c \in LETTER

\* toupper() in the C locale
UpperOf == [c \in {LowerChars[i] : i \in 1..26} |->
              UpperChars[CHOOSE i \in 1..26 : LowerChars[i] = c]]

toupper(c) == IF c \in DOMAIN UpperOf THEN UpperOf[c] ELSE c

\* strcmp(a, b) == 0
strcmp0(a, b) == a = b

\* mutant of strcasecmp0: the comparison is case-sensitive
strcasecmp0_CaseSensitive(a, b) == a = b

\* strcasecmp(a, b) == 0
strcasecmp0(a, b) ==
  /\ Len(a) = Len(b)
  /\ \A i \in 1..Len(a) : toupper(a[i]) = toupper(b[i])

\* strspn(s + p, accept): length of the longest run of accepted characters
\* that starts at index p (the NUL at Len(s) + 1 is never accepted)
RECURSIVE strspn(_, _, _)
strspn(s, p, accept) ==
  IF p <= Len(s) /\ s[p] \in accept THEN 1 + strspn(s, p + 1, accept) ELSE 0

\* memcmp(s + p, w, strlen(w)) == 0; the comparison stops at the first
\* difference, which the terminating NUL of s is when s is too short
memcmp0(s, p, w) ==
  /\ p + Len(w) - 1 <= Len(s)
  /\ \A i \in 1..Len(w) : s[p + i - 1] = w[i]

Min(S) == CHOOSE x \in S : \A y \in S : x <= y

(***************************************************************************)
(* Operator table                                                          *)
(***************************************************************************)

OP_OR   == 0
OP_AND  == 1
OP_XOR  == 2
OP_NAND == 3
OP_NOR  == 4
OP_IMP  == 5
OP_EQU  == 6

\* static char *operator[]; operator[i] of the source is operator[i + 1] here
operator ==
  << <<"O","R">>, <<"A","N","D">>, <<"X","O","R">>, <<"N","A","N","D">>,
     <<"N","O","R">>, <<"I","M","P">>, <<"E","Q","U">> >>

\* static char *short_op[]; "" is the empty sequence
short_op ==
  << <<"|">>, <<"&">>, <<"^">>, <<>>, <<>>, <<"-",">">>, <<"=">> >>

\* oper_id: the operator id for the given name, or -1 if none
oper_id(oper_name) ==
  LET S == {i \in 0..(Len(operator) - 1) :
              \/ strcasecmp0(oper_name, operator[i + 1])
              \/ strcmp0(oper_name, short_op[i + 1])}
  IN  IF S = {} THEN -1 ELSE Min(S)

STACK_MAX == 128
VAR_MAX   == 64

\* the NULL pointer: as a char * of the registry or of a token text, and as
\* the tokenizer cursor
NULL == <<>>
NULLPTR == 0

(***************************************************************************)
(* Tokenizer                                                               *)
(***************************************************************************)

\* a Token *; NoToken is the NULL token pointer
Token(type, text) == [type |-> type, text |-> text]
NoToken == [type |-> "NULL", text |-> <<>>]

\* RETURN_TOKEN(len, token): the text is copied from the cursor unless it was
\* already set, and the cursor advances by len
RETURN_TOKEN(s, p, len, type, text) ==
  [tok |-> Token(type, IF text = NULL THEN SubSeq(s, p, p + len - 1) ELSE text),
   ptr |-> p + len]

\* the first symbolic operator spelling that matches at the cursor, or 0
ShortOpAt(s, p) ==
  LET S == {i \in 1..Len(short_op) :
              short_op[i] # <<>> /\ memcmp0(s, p, short_op[i])}
  IN  IF S = {} THEN 0 ELSE Min(S)

\* mutant of WordToken: the UNKNOWN token takes the offending character
WordToken_TakesChar(s, p) ==
  LET len  == strspn(s, p, WordChars)
      text == SubSeq(s, p, p + len - 1)
  IN  IF len = 0 THEN RETURN_TOKEN(s, p, 1, "UNKNOWN", NULL)
      ELSE IF strcasecmp0(text, <<"N","O","T">>)
        THEN RETURN_TOKEN(s, p, len, "NOT", text)
      ELSE IF \E i \in 1..Len(operator) : strcasecmp0(text, operator[i])
        THEN RETURN_TOKEN(s, p, len, "OPERATOR", text)
      ELSE RETURN_TOKEN(s, p, len, "VARIABLE", text)

\* the word branch of next_token (source lines 169-195)
WordToken(s, p) ==
  LET len  == strspn(s, p, WordChars)
      text == SubSeq(s, p, p + len - 1)
  IN  IF len = 0 THEN RETURN_TOKEN(s, p, 0, "UNKNOWN", NULL)
      ELSE IF strcasecmp0(text, <<"N","O","T">>)
        THEN RETURN_TOKEN(s, p, len, "NOT", text)
      ELSE IF \E i \in 1..Len(operator) : strcasecmp0(text, operator[i])
        THEN RETURN_TOKEN(s, p, len, "OPERATOR", text)
      ELSE RETURN_TOKEN(s, p, len, "VARIABLE", text)

\* next_token: the next token of the string s for the cursor ptr, and the
\* new cursor; tok = NoToken when the end of the string is reached
next_token(s, ptr) ==
  LET p0 == IF ptr = NULLPTR THEN 1 ELSE ptr
      p  == p0 + strspn(s, p0, WHITESPACE)
  IN  IF p > Len(s) THEN [tok |-> NoToken, ptr |-> NULLPTR]
      ELSE IF s[p] = "(" THEN RETURN_TOKEN(s, p, 1, "LPAREN", NULL)
      ELSE IF s[p] = ")" THEN RETURN_TOKEN(s, p, 1, "RPAREN", NULL)
      ELSE IF s[p] = "/" THEN RETURN_TOKEN(s, p, 1, "SLASHVARS", NULL)
      ELSE IF ~isalpha(s[p]) /\ s[p] = "!"
        THEN RETURN_TOKEN(s, p, 1, "NOT", NULL)
      ELSE IF ~isalpha(s[p]) /\ ShortOpAt(s, p) # 0
        THEN RETURN_TOKEN(s, p, Len(short_op[ShortOpAt(s, p)]), "OPERATOR", NULL)
      ELSE WordToken(s, p)

(***************************************************************************)
(* Variable registry                                                       *)
(***************************************************************************)

\* static char *variable[VAR_MAX], zero-initialised
NoVariables == [i \in 0..(VAR_MAX - 1) |-> NULL]

\* the index at which the lookup loop of var_id stops
var_scan(var, var_name) ==
  LET S == {i \in 0..(VAR_MAX - 1) : var[i] = NULL \/ strcmp0(var_name, var[i])}
  IN  IF S = {} THEN VAR_MAX ELSE Min(S)

\* mutant of var_id: the registry is not checked for being full
var_id_NoDie(var, nv, var_name) ==
  LET i == var_scan(var, var_name)
  IN  IF i < VAR_MAX /\ var[i] # NULL
        THEN [id |-> i, variable |-> var, num_vars |-> nv, die |-> FALSE]
      ELSE [id |-> i, variable |-> [var EXCEPT ![i] = var_name],
            num_vars |-> nv + 1, die |-> FALSE]

\* mutant of var_id: the registry is not searched for the name
var_id_AlwaysNew(var, nv, var_name) ==
  IF nv = VAR_MAX
    THEN [id |-> nv, variable |-> var, num_vars |-> nv, die |-> TRUE]
  ELSE [id |-> nv, variable |-> [var EXCEPT ![nv] = var_name],
        num_vars |-> nv + 1, die |-> FALSE]

\* var_id: the id of the name, created if necessary; die when the registry
\* is full
var_id(var, nv, var_name) ==
  LET i == var_scan(var, var_name)
  IN  IF i < VAR_MAX /\ var[i] # NULL
        THEN [id |-> i, variable |-> var, num_vars |-> nv, die |-> FALSE]
      ELSE IF i = VAR_MAX
        THEN [id |-> i, variable |-> var, num_vars |-> nv, die |-> TRUE]
      ELSE [id |-> i, variable |-> [var EXCEPT ![i] = var_name],
            num_vars |-> nv + 1, die |-> FALSE]

\* mutant of clear_vars: the count is reset but the names stay
clear_vars_KeepNames(var, nv) == [variable |-> var, num_vars |-> 0]

\* clear_vars: the registry and num_vars it leaves
clear_vars(var, nv) ==
  [variable |-> [i \in 0..(VAR_MAX - 1) |-> IF i < nv THEN NULL ELSE var[i]],
   num_vars |-> 0]

(***************************************************************************)
(* Expression nodes and the evaluator                                      *)
(***************************************************************************)

\* the id of a NOT node, and of the node for which var_id dies, is never
\* assigned and never read
NOID == -1

\* output: the node appended for a token that is not a variable
OutputNode(tok) ==
  [type |-> tok.type,
   id   |-> IF tok.type = "OPERATOR" THEN oper_id(tok.text) ELSE NOID]

\* output applied to a sequence of tokens popped from the parser stack
RECURSIVE OutputAll(_, _)
OutputAll(nd, toks) ==
  IF toks = <<>> THEN nd
  ELSE OutputAll(Append(nd, OutputNode(Head(toks))), Tail(toks))

\* 1 << n, on int, for the n up to 30 for which C defines it; ShlInt below
\* gives what the builds make of a larger n
Shl1(n) == 2 ^ n

\* !!(bits & (1 << id)), for id <= 30
BitOf(bits, id) == (bits \div Shl1(id)) % 2

bool(p) == IF p THEN 1 ELSE 0

\* the switch on node[i].id of evaluate
ApplyOper(id, a, b) ==
  CASE id = OP_OR   -> bool(a # 0 \/ b # 0)
    [] id = OP_AND  -> bool(a # 0 /\ b # 0)
    [] id = OP_XOR  -> bool(a # b)
    [] id = OP_NAND -> bool(~(a # 0 /\ b # 0))
    [] id = OP_NOR  -> bool(~(a # 0 \/ b # 0))
    [] id = OP_IMP  -> bool(a = 0 \/ b # 0)
    [] id = OP_EQU  -> bool(a = b)

\* mutant of PopOperands: a is popped first
PopOperands_Swapped(st) == [a |-> st[Len(st)], b |-> st[Len(st) - 1]]

\* the operands popped for an OPERATOR node: b first, then a
PopOperands(st) == [b |-> st[Len(st)], a |-> st[Len(st) - 1]]

\* evaluate's stack st while the loop runs (ret = 0), or the negative value
\* the loop has returned
Running(st) == [ret |-> 0, st |-> st]
Returned(r, st) == [ret |-> r, st |-> st]

\* the body of the loop of evaluate for node i
EvalNode(nd, bits, i, s) ==
  IF s.ret < 0 THEN s
  ELSE LET st == s.st
       IN  CASE nd[i].type = "VARIABLE" ->
                  IF Len(st) >= STACK_MAX THEN Returned(-1, st)
                  ELSE Running(Append(st, BitOf(bits, nd[i].id)))
             [] nd[i].type = "OPERATOR" ->
                  IF Len(st) <= 1 THEN Returned(-2, st)
                  ELSE LET o     == PopOperands(st)
                           below == SubSeq(st, 1, Len(st) - 2)
                       IN  IF Len(below) >= STACK_MAX THEN Returned(-1, st)
                           ELSE Running(Append(below,
                                               ApplyOper(nd[i].id, o.a, o.b)))
             [] nd[i].type = "NOT" ->
                  IF Len(st) <= 0 THEN Returned(-2, st)
                  ELSE Running([st EXCEPT ![Len(st)] = bool(st[Len(st)] = 0)])
             [] OTHER -> s

\* the loop of evaluate over the nodes lo..hi: the first half of the nodes,
\* then the second half unless the loop has returned
RECURSIVE EvalNodes(_, _, _, _, _)
EvalNodes(nd, bits, lo, hi, s) ==
  IF lo > hi THEN s
  ELSE IF lo = hi THEN EvalNode(nd, bits, lo, s)
  ELSE LET mid   == (lo + hi) \div 2
           first == EvalNodes(nd, bits, lo, mid, s)
       IN  IF first.ret < 0 THEN first
           ELSE EvalNodes(nd, bits, mid + 1, hi, first)

\* mutant of EvalFrom: at the end the top of the stack is returned whenever
\* the stack is not empty
EvalFrom_NoLeftoverCheck(nd, bits, i, st) ==
  LET s == EvalNodes(nd, bits, i, Len(nd), Running(st))
  IN  IF s.ret < 0 THEN s.ret
      ELSE IF Len(s.st) = 0 THEN -3
      ELSE s.st[Len(s.st)]

\* the loop of evaluate from node i on, with evaluation stack st, and the
\* return after it
EvalFrom(nd, bits, i, st) ==
  LET s == EvalNodes(nd, bits, i, Len(nd), Running(st))
  IN  IF s.ret < 0 THEN s.ret
      ELSE IF Len(s.st) # 1 THEN -3
      ELSE s.st[Len(s.st)]

\* evaluate: -1 on stack overflow, -2 on underflow, -3 if the stack does not
\* hold exactly one value at the end
evaluate(nd, bits) == EvalFrom(nd, bits, 1, <<>>)


(***************************************************************************)
(* Input lines                                                             *)
(***************************************************************************)

\* the lexemes s[1], ..., s[n] separated by single blanks, and the newline
\* that fgets keeps at the end of the line
RECURSIVE Join(_)
Join(s) ==
  IF s = <<>> THEN <<"\n">>
  ELSE IF Len(s) = 1 THEN Head(s) \o <<"\n">>
  ELSE Head(s) \o <<" ">> \o Join(Tail(s))

\* the longest generated token line
MaxToks == 3

\* the lexemes of the generated token lines
TokAlphabet ==
  { <<"A">>, <<"B">>, <<"A","N","D">>, <<"N","O","T">>,
    <<"(">>, <<")">>, <<"/">>, <<"$">> }

\* every line of at most MaxToks lexemes of TokAlphabet
TokLines ==
  {Join(f) : f \in UNION {[1..k -> TokAlphabet] : k \in 0..MaxToks}}

\* A XOR B
L_A_XOR_B == <<"A"," ","X","O","R"," ","B","\n">>

\* A OR B AND C
L_A_OR_B_AND_C == <<"A"," ","O","R"," ","B"," ","A","N","D"," ","C","\n">>

\* NOT A AND B
L_NOT_A_AND_B == <<"N","O","T"," ","A"," ","A","N","D"," ","B","\n">>

\* A AND NOT B
L_A_AND_NOT_B == <<"A"," ","A","N","D"," ","N","O","T"," ","B","\n">>

\* (A AND B
L_OPEN_A_AND_B == <<"(","A"," ","A","N","D"," ","B","\n">>

\* A AND B)
L_A_AND_B_CLOSE == <<"A"," ","A","N","D"," ","B",")","\n">>

\* A $ B
L_A_DOLLAR_B == <<"A"," ","$"," ","B","\n">>

\* / B A
L_SLASH_B_A == <<"/"," ","B"," ","A","\n">>

\* A AND B
L_A_AND_B == <<"A"," ","A","N","D"," ","B","\n">>

\* A -> B
L_A_ARROW_B == <<"A"," ","-",">"," ","B","\n">>

\* !a&(b|A)
L_SYMBOLIC == <<"!","a","&","(","b","|","A",")","\n">>

\* x1 nand not y_2
L_LOWER == <<"x","1"," ","n","a","n","d"," ","n","o","t"," ","y","_","2","\n">>

\* / C A C
L_SLASH_C_A_C == <<"/"," ","C"," ","A"," ","C","\n">>

\* C IMP A OR B
L_C_IMP_A_OR_B == <<"C"," ","I","M","P"," ","A"," ","O","R"," ","B","\n">>

\* A <op> B for each of the seven operator words
OperatorLine(id) == Join(<< <<"A">>, operator[id + 1], <<"B">> >>)

ExampleLines ==
  {L_A_XOR_B,
   L_A_OR_B_AND_C,
   L_NOT_A_AND_B,
   L_A_AND_NOT_B,
   L_OPEN_A_AND_B,
   L_A_AND_B_CLOSE,
   L_A_DOLLAR_B,
   L_SLASH_B_A,
   L_A_AND_B,
   L_A_ARROW_B,
   L_SYMBOLIC,
   L_LOWER,
   L_SLASH_C_A_C,
   L_C_IMP_A_OR_B}
    \cup {OperatorLine(id) : id \in 0..(Len(operator) - 1)}

(***************************************************************************)
(* Well-formed lines: chains  p1 op1 p2 ... opk p(k+1)  of primaries, a     *)
(* primary being a variable or a group ( x op y ), plain or under one NOT.  *)
(* Each chain comes with the postfix sequence and the truth value that the  *)
(* grammar (NOT binds tightest, binary operators equal and left to right)   *)
(* gives it.                                                                *)
(***************************************************************************)

\* the longest chain, in binary operators outside the groups
MaxChain == 2

\* the operators between the primaries, and the operators inside a group
ChainOps == {OP_AND, OP_IMP}
GroupOps == {OP_IMP}

NOGROUP == -1

Primaries == [neg : BOOLEAN, grp : {NOGROUP} \cup GroupOps]

Chains ==
  UNION {[prims : [1..(k + 1) -> Primaries], ops : [1..k -> ChainOps]] :
           k \in 0..MaxChain}

\* the n-th variable of a line, counted from 1
VarPool == << <<"A">>, <<"B">>, <<"C">> >>
VarName(n) == VarPool[((n - 1) % Len(VarPool)) + 1]

PrimWidth(p) == IF p.grp = NOGROUP THEN 1 ELSE 2

\* the number of variables to the left of the i-th primary
RECURSIVE VarsBefore(_, _)
VarsBefore(prims, i) ==
  IF i = 1 THEN 0 ELSE VarsBefore(prims, i - 1) + PrimWidth(prims[i - 1])

Sym(type, text) == [type |-> type, text |-> text]

\* the reference truth rule of each binary operator
Sem(op, a, b) ==
  CASE op = OP_OR   -> a \/ b
    [] op = OP_AND  -> a /\ b
    [] op = OP_XOR  -> a # b
    [] op = OP_NAND -> ~(a /\ b)
    [] op = OP_NOR  -> ~(a \/ b)
    [] op = OP_IMP  -> (a => b)
    [] op = OP_EQU  -> (a <=> b)

\* a primary whose first variable is the n-th of the line: its lexemes, its
\* postfix sequence, and its value under val (a function from names)
PrimLexemes(p, n) ==
  (IF p.neg THEN << <<"N","O","T">> >> ELSE <<>>)
    \o (IF p.grp = NOGROUP THEN <<VarName(n)>>
        ELSE << <<"(">>, VarName(n), operator[p.grp + 1], VarName(n + 1),
                <<")">> >>)

PrimPostfix(p, n) ==
  (IF p.grp = NOGROUP THEN <<Sym("VARIABLE", VarName(n))>>
   ELSE <<Sym("VARIABLE", VarName(n)), Sym("VARIABLE", VarName(n + 1)),
          Sym("OPERATOR", operator[p.grp + 1])>>)
    \o (IF p.neg THEN <<Sym("NOT", <<>>)>> ELSE <<>>)

PrimValue(p, n, val) ==
  LET v == IF p.grp = NOGROUP THEN val[VarName(n)]
           ELSE Sem(p.grp, val[VarName(n)], val[VarName(n + 1)])
  IN  IF p.neg THEN ~v ELSE v

\* the lexemes of the chain from its i-th primary on
RECURSIVE ChainLexemes(_, _)
ChainLexemes(c, i) ==
  IF i > Len(c.prims) THEN <<>>
  ELSE (IF i > 1 THEN <<operator[c.ops[i - 1] + 1]>> ELSE <<>>)
         \o PrimLexemes(c.prims[i], VarsBefore(c.prims, i) + 1)
         \o ChainLexemes(c, i + 1)

\* the postfix sequence x1 x2 op1 x3 op2 ... of the first i primaries
RECURSIVE ChainPostfix(_, _)
ChainPostfix(c, i) ==
  IF i = 1 THEN PrimPostfix(c.prims[1], 1)
  ELSE ChainPostfix(c, i - 1)
         \o PrimPostfix(c.prims[i], VarsBefore(c.prims, i) + 1)
         \o <<Sym("OPERATOR", operator[c.ops[i - 1] + 1])>>

\* the value ((x1 op1 x2) op2 x3) ... of the first i primaries
RECURSIVE ChainValue(_, _, _)
ChainValue(c, i, val) ==
  IF i = 1 THEN PrimValue(c.prims[1], 1, val)
  ELSE Sem(c.ops[i - 1], ChainValue(c, i - 1, val),
           PrimValue(c.prims[i], VarsBefore(c.prims, i) + 1, val))

ChainLine(c) == Join(ChainLexemes(c, 1))

\* every chain with its line
ChainTable == {<<ChainLine(c), c>> : c \in Chains}

ChainLines == {p[1] : p \in ChainTable}

IsChainLine(line) == \E p \in ChainTable : p[1] = line
ChainOf(line) == (CHOOSE p \in ChainTable : p[1] = line)[2]

InputLines == TokLines \cup ExampleLines \cup ChainLines

\* the lines that precede the last line of an input of several lines
PrefixLines ==
  {L_SLASH_B_A, L_SLASH_C_A_C, L_OPEN_A_AND_B, L_A_AND_B_CLOSE, L_A_AND_B}

\* the longest generated token line that follows other lines
MaxFollowToks == 2

\* the last lines of an input of several lines
FollowLines ==
  ExampleLines
    \cup {Join(f) : f \in UNION {[1..k -> TokAlphabet] : k \in 0..MaxFollowToks}}

\* the longest input, in lines
MaxLines == 2

(***************************************************************************)
(* Lines that fail, lines that fill the fixed-size arrays, and the inputs   *)
(* of several lines in which they are followed by other lines               *)
(***************************************************************************)

L_A_SLASH_B == Join(<< <<"A">>, <<"/">>, <<"B">> >>)
L_SLASH_A_SLASH_B == Join(<< <<"/">>, <<"A">>, <<"/">>, <<"B">> >>)
L_SLASH_B_A_AND == Join(<< <<"/">>, <<"B">>, <<"A">>, <<"A","N","D">> >>)
L_AND == Join(<< <<"A","N","D">> >>)
L_A_B == Join(<< <<"A">>, <<"B">> >>)
L_B_AND_A == Join(<< <<"B">>, <<"A","N","D">>, <<"A">> >>)
L_C_AND_A_OR_C ==
  Join(<< <<"C">>, <<"A","N","D">>, <<"A">>, <<"O","R">>, <<"C">> >>)

\* lines without any token that becomes a node: the empty line, a line of
\* blanks and tabs, and a pair of parentheses
L_EMPTY == <<"\n">>
L_BLANKS == <<" ", "\t", " ", "\n">>
L_PARENS == <<"(", ")", "\n">>
NodelessLines == {L_EMPTY, L_BLANKS, L_PARENS}

\* operands and operators out of turn: A B AND, A (B AND) and A NOT
L_A_B_AND == <<"A"," ","B"," ","A","N","D","\n">>
L_A_PAREN_B_AND == <<"A"," ","(","B"," ","A","N","D",")","\n">>
L_A_NOT == <<"A"," ","N","O","T","\n">>

\* STACK_MAX + 1 left parentheses: one more than main's stack holds
L_DEEP_PARENS == [i \in 1..(STACK_MAX + 1) |-> "("] \o <<"\n">>

\* STACK_MAX + 1 operands: one more than evaluate's stack holds
L_MANY_OPERANDS ==
  [i \in 1..(2 * (STACK_MAX + 1)) |->
     IF i = 2 * (STACK_MAX + 1) THEN "\n" ELSE IF i % 2 = 1 THEN "A" ELSE " "]

\* pairwise distinct variable names aa, ab, ..., az, ba, ...
NameNo(i) == <<LowerChars[(i \div 26) + 1], LowerChars[(i % 26) + 1]>>

\* the line of the names NameNo(0), ..., NameNo(k - 1), each followed by a
\* blank, that starts with the characters of lead
NamesLine(lead, k) ==
  lead \o [i \in 1..(3 * k) |->
            IF i % 3 = 0 THEN " " ELSE NameNo((i - 1) \div 3)[i % 3]]
       \o <<"\n">>

\* VAR_MAX + 1 distinct names as an expression line and as a directive line,
\* and VAR_MAX distinct names as a directive line
L_65_NAMES == NamesLine(<<>>, VAR_MAX + 1)
L_SLASH_65_NAMES == NamesLine(<<"/", " ">>, VAR_MAX + 1)
L_SLASH_64_NAMES == NamesLine(<<"/", " ">>, VAR_MAX)

\* A <sym> B for each operator that has a symbolic spelling
SymbolLine(id) == Join(<< <<"A">>, short_op[id + 1], <<"B">> >>)
SymbolIds == {id \in 0..(Len(short_op) - 1) : short_op[id + 1] # <<>>}

\* the words of the specification that are not in operator[]
L_A_IMPLIES_B == Join(<< <<"A">>, <<"I","M","P","L","I","E","S">>, <<"B">> >>)
L_A_EQUIV_B == Join(<< <<"A">>, <<"E","Q","U","I","V">>, <<"B">> >>)

\* operator words in mixed case, and NOT in both spellings
L_MIXED_CASE ==
  Join(<< <<"a">>, <<"O","r">>, <<"n","O","t">>, <<"b">>, <<"x","O","r">>,
          <<"a">>, <<"i","M","p">>, <<"b">>, <<"E","q","U">>, <<"a">> >>)
L_NOT_A == Join(<< <<"N","O","T">>, <<"A">> >>)
L_BANG_A == <<"!", "A", "\n">>

\* the lines that fail, one for each diagnostic of a line
FailingLines ==
  {L_A_DOLLAR_B, L_OPEN_A_AND_B, L_A_AND_B_CLOSE, L_A_SLASH_B,
   L_SLASH_A_SLASH_B, L_SLASH_B_A_AND, L_DEEP_PARENS, L_MANY_OPERANDS,
   L_AND, L_A_B}

ScenarioFiles ==
  {<<l, L_A_AND_B>> : l \in FailingLines}
    \cup {<<l, L_B_AND_A>> : l \in FailingLines}
    \cup {<<L_65_NAMES, L_A_AND_B>>, <<L_SLASH_65_NAMES, L_A_AND_B>>,
          <<L_SLASH_64_NAMES, L_A_AND_B>>,
          <<L_SLASH_B_A, L_A_AND_B, L_A_AND_B>>,
          <<L_SLASH_B_A, L_A_AND_B, L_B_AND_A>>,
          <<L_SLASH_B_A, L_A_B, L_A_AND_B>>,
          <<L_SLASH_B_A, L_SLASH_C_A_C, L_A_AND_B>>,
          <<L_A_IMPLIES_B>>, <<L_A_EQUIV_B>>, <<L_MIXED_CASE>>,
          <<L_NOT_A>>, <<L_BANG_A>>, <<L_NOT_A, L_BANG_A>>,
          <<L_SLASH_B_A, L_C_AND_A_OR_C>>}
    \cup {<<l, L_A_AND_B>> : l \in NodelessLines}
    \cup {<<L_A_B_AND>>, <<L_A_PAREN_B_AND>>, <<L_A_NOT>>,
          <<L_SLASH_B_A, L_A_PAREN_B_AND>>}
    \cup {<<SymbolLine(id)>> : id \in SymbolIds}
    \cup {<<OperatorLine(id), SymbolLine(id)>> : id \in SymbolIds}

\* the inputs: any line of InputLines alone, every line of FollowLines after
\* 1 to MaxLines - 1 lines of PrefixLines, and the inputs of ScenarioFiles
InputFiles ==
  {<<l>> : l \in InputLines}
    \cup UNION {{f \o <<l>> : f \in [1..k -> PrefixLines], l \in FollowLines} :
                  k \in 1..(MaxLines - 1)}
    \cup ScenarioFiles

(***************************************************************************)
(* Program state                                                           *)
(***************************************************************************)

VARIABLES
  stdin,          \* the lines of standard input that are not read yet
  input,          \* static char input[1024]: the line read by fgets
  input_ptr,      \* the tokenizer cursor into input, NULLPTR between strings
  t,              \* main's Token *t: the token returned by next_token
  stack,          \* main's Token *stack[STACK_MAX], entries below sp
  node,           \* Node *node: the expression nodes, np = Len(node)
  variable,       \* static char *variable[VAR_MAX]
  num_vars,       \* static int num_vars
  first_token,    \* main's int first_token
  slashvar_mode,  \* main's int slashvar_mode
  pc,             \* the position of main
  exit_status,    \* the exit status of the process, NOT_EXITED while it runs
  out,            \* the lines written to stdout
  err,            \* the diagnostics written to stderr
  start           \* history: the number of lines read, and the registered
                  \* names and the lengths of out and err when the current
                  \* line was read

vars ==
  <<stdin, input, input_ptr, t, stack, node, variable, num_vars, first_token,
    slashvar_mode, pc, exit_status, out, err, start>>

\* one call of evaluate, taken step by step
VARIABLES
  build,          \* what 1 << n yields where C leaves it undefined
  ev_pc,          \* the position of evaluate: "idle", "loop" or "returned"
  ev_bits,        \* uint64_t bits, as the set of the positions of its 1 bits
  ev_i,           \* int i
  ev_stack,       \* char stack[STACK_MAX], the entries below sp
  ev_ret,         \* the value returned
  ev_acc,         \* history: the indices of stack the last step read or wrote
  ev_first        \* history: the bits and the value of the first call

evars == <<build, ev_pc, ev_bits, ev_i, ev_stack, ev_ret, ev_acc, ev_first>>

\* the program of src/ttgen.c, which builds an expression tree
VARIABLES
  tt_stdin,       \* the lines of standard input that are not read yet
  tt_input,       \* static char input[1024]
  tt_input_ptr,   \* static char *input_ptr
  tt_t,           \* main's Token *t
  tt_variable,    \* static char *variable[VAR_MAX]
  tt_num_vars,    \* static int num_vars
  expect,         \* main's int expect
  tree,           \* main's Node *tree: the address of a node of heap
  heap,           \* the nodes make_node has allocated for the current line
  tt_pc,          \* the position of main
  tt_out,         \* the lines written to stdout
  tt_err,         \* the diagnostics written to stderr
  tt_start        \* history: the number of lines read, and the lengths of
                  \* tt_out and tt_err and the value of expect when the
                  \* current line was read

tvars ==
  <<tt_stdin, tt_input, tt_input_ptr, tt_t, tt_variable, tt_num_vars, expect,
    tree, heap, tt_pc, tt_out, tt_err, tt_start>>

\* the variables the shunting-yard main leaves alone
rest == <<evars, tvars>>

NOT_EXITED == -1

\* int sp of main and int np
sp == Len(stack)
np == Len(node)

\* the registered names, in id order
Names(var, nv) == [i \in 1..nv |-> var[i - 1]]

\* one line written to stdout: the header, a row, or the blank separator
Header(cols) == [kind |-> "header", cols |-> cols, res |-> ""]
Row(cols, res) == [kind |-> "row", cols |-> cols, res |-> res]
Blank == [kind |-> "blank", cols |-> <<>>, res |-> ""]

\* one diagnostic written to stderr
Diag(kind, arg) == [kind |-> kind, arg |-> arg]

\* no build is consulted: evaluate is not taken step by step
NOBUILD == "none"

\* evaluate is not called step by step
NoCall ==
  /\ build = NOBUILD
  /\ ev_pc = "idle"
  /\ ev_bits = {}
  /\ ev_i = 0
  /\ ev_stack = <<>>
  /\ ev_ret = 0
  /\ ev_acc = {}
  /\ ev_first = <<>>

\* the tree-building program before it reads a line
TtStart ==
  /\ tt_input = <<>>
  /\ tt_input_ptr = NULLPTR
  /\ tt_t = NoToken
  /\ tt_variable = NoVariables
  /\ tt_num_vars = 0
  /\ expect = "EXPR"
  /\ tree = NULLPTR
  /\ heap = <<>>
  /\ tt_pc = "fgets"
  /\ tt_out = <<>>
  /\ tt_err = <<>>
  /\ tt_start = [lines |-> 0, out |-> 0, err |-> 0, expect |-> "EXPR"]

\* the state of main before it reads a line
MainStart ==
  /\ input = <<>>
  /\ input_ptr = NULLPTR
  /\ t = NoToken
  /\ stack = <<>>
  /\ node = <<>>
  /\ variable = NoVariables
  /\ num_vars = 0
  /\ first_token = 0      \* indeterminate, assigned at the loop head
  /\ slashvar_mode = 0    \* before main reads either of them
  /\ pc = "fgets"
  /\ exit_status = NOT_EXITED
  /\ out = <<>>
  /\ err = <<>>
  /\ start = [lines |-> 0, vars |-> <<>>, out |-> 0, err |-> 0]

\* evaluate is called inside print_table, and the tree-building program gets
\* no input
Init ==
  /\ stdin \in InputFiles
  /\ MainStart
  /\ NoCall
  /\ tt_stdin = <<>>
  /\ TtStart

(***************************************************************************)
(* main: reading a line                                                    *)
(***************************************************************************)

\* while(fgets(input, 1024, stdin)) { first_token = 1; slashvar_mode = 0;
Fgets ==
  /\ pc = "fgets"
  /\ stdin # <<>>
  /\ input' = Head(stdin)
  /\ stdin' = Tail(stdin)
  /\ first_token' = 1
  /\ slashvar_mode' = 0
  /\ pc' = "token"
  /\ start' = [lines |-> start.lines + 1, vars |-> Names(variable, num_vars),
               out |-> Len(out), err |-> Len(err)]
  /\ UNCHANGED <<input_ptr, t, stack, node, variable, num_vars, exit_status,
                 out, err>>
  /\ UNCHANGED rest

\* fgets returns NULL at end of input: return 0
EndOfInput ==
  /\ pc = "fgets"
  /\ stdin = <<>>
  /\ pc' = "exit"
  /\ exit_status' = 0
  /\ UNCHANGED <<stdin, input, input_ptr, t, stack, node, variable, num_vars,
                 first_token, slashvar_mode, out, err, start>>
  /\ UNCHANGED rest

(***************************************************************************)
(* main: the token loop                                                    *)
(***************************************************************************)

\* the result of the next_token call of the loop head
Next_t == next_token(input, input_ptr)

\* mutant of PushOrOverflow: the overflow ends the program
PushOrOverflow_Exits(st, tok) ==
  IF Len(st) >= STACK_MAX
    THEN /\ stack' = st
         /\ err' = Append(err, Diag("stack overflow", <<>>))
         /\ pc' = "exit"
         /\ UNCHANGED first_token
    ELSE /\ stack' = Append(st, tok)
         /\ first_token' = 0
         /\ UNCHANGED <<err, pc>>

\* mutant of PushOrOverflow: the capacity of the stack is not tested
PushOrOverflow_NoCheck(st, tok) ==
  /\ stack' = Append(st, tok)
  /\ first_token' = 0
  /\ UNCHANGED <<err, pc>>

\* PUSH(t) after the pops that left st: overflow aborts the line
PushOrOverflow(st, tok) ==
  IF Len(st) >= STACK_MAX
    THEN /\ stack' = st
         /\ err' = Append(err, Diag("stack overflow", <<>>))
         /\ pc' = "cleanup"
         /\ UNCHANGED first_token
    ELSE /\ stack' = Append(st, tok)
         /\ first_token' = 0
         /\ UNCHANGED <<err, pc>>

\* the number of tokens a pop loop removes: the entries on top of st whose
\* type is in types
RECURSIVE PopRun(_, _)
PopRun(st, types) ==
  IF st # <<>> /\ st[Len(st)].type \in types
    THEN 1 + PopRun(SubSeq(st, 1, Len(st) - 1), types)
    ELSE 0

\* the k topmost tokens of st in the order they are popped
Popped(st, k) == [i \in 1..k |-> st[Len(st) - i + 1]]

\* st without its k topmost tokens
Below(st, k) == SubSeq(st, 1, Len(st) - k)

TokenTypes ==
  {"UNKNOWN", "VARIABLE", "OPERATOR", "LPAREN", "RPAREN", "NOT", "SLASHVARS"}

\* mutants of OperatorPops: case OPERATOR leaves the pending operators, or
\* the pending NOTs, on the stack
OperatorPops_NotOnly == {"NOT"}
OperatorPops_OperatorOnly == {"OPERATOR"}

\* the token types that case OPERATOR outputs from the top of the stack
OperatorPops == {"OPERATOR", "NOT"}

\* mutant of TokUnknown: the token loop goes on after an UNKNOWN token
TokUnknown_Retries ==
  /\ pc = "token"
  /\ LET nt == Next_t
     IN  /\ nt.tok.type = "UNKNOWN"
         /\ t' = nt.tok
         /\ input_ptr' = nt.ptr
         /\ UNCHANGED <<stdin, input, stack, node, variable, num_vars,
                        first_token, pc, err,
                        slashvar_mode, exit_status, out, start>>
  /\ UNCHANGED rest

\* if(t->type == UNKNOWN) { error: unexpected character; goto cleanup; }
TokUnknown ==
  /\ pc = "token"
  /\ LET nt == Next_t
     IN  /\ nt.tok.type = "UNKNOWN"
         /\ t' = nt.tok
         /\ input_ptr' = nt.ptr
         /\ err' = Append(err, Diag("unexpected character", <<input[nt.ptr]>>))
         /\ pc' = "cleanup"
         /\ UNCHANGED <<stdin, input, stack, node, variable, num_vars,
                        first_token,
                        slashvar_mode, exit_status, out, start>>
  /\ UNCHANGED rest

\* the registry update of a var_id call, or the exit of die
VarIdOrDie(r) ==
  IF r.die
    THEN /\ err' = Append(err, Diag("maximum of variables", <<>>))
         /\ pc' = "exit"
         /\ exit_status' = 1
         /\ UNCHANGED <<variable, num_vars, first_token>>
    ELSE /\ variable' = r.variable
         /\ num_vars' = r.num_vars
         /\ first_token' = 0
         /\ UNCHANGED <<err, pc, exit_status>>

\* slashvar mode, a variable: var_id(t->text)
SlashvarVariable ==
  /\ pc = "token"
  /\ LET nt == Next_t
     IN  /\ slashvar_mode # 0
         /\ nt.tok.type = "VARIABLE"
         /\ t' = nt.tok
         /\ input_ptr' = nt.ptr
         /\ VarIdOrDie(var_id(variable, num_vars, nt.tok.text))
         /\ UNCHANGED <<stdin, input, stack, node, slashvar_mode, out, start>>
  /\ UNCHANGED rest

\* mutant of SlashvarNonVariable: the failed directive ends like a
\* well-formed one, without the cleanup
SlashvarNonVariable_Continue ==
  /\ pc = "token"
  /\ slashvar_mode # 0
  /\ Next_t.tok.type \in {"OPERATOR", "LPAREN", "RPAREN", "NOT", "SLASHVARS"}
  /\ t' = Next_t.tok
  /\ input_ptr' = NULLPTR
  /\ err' = Append(err, Diag("non-variable in slashvar line", Next_t.tok.text))
  /\ out' = Append(out, Blank)
  /\ pc' = "fgets"
  /\ UNCHANGED <<stdin, input, stack, node, variable, num_vars, first_token,
                 slashvar_mode, exit_status, start>>
  /\ UNCHANGED rest

\* slashvar mode, any other token: error, goto cleanup
SlashvarNonVariable ==
  /\ pc = "token"
  /\ LET nt == Next_t
     IN  /\ slashvar_mode # 0
         /\ nt.tok.type \in TokenTypes \ {"UNKNOWN", "VARIABLE"}
         /\ t' = nt.tok
         /\ input_ptr' = nt.ptr
         /\ err' = Append(err, Diag("non-variable in slashvar line", nt.tok.text))
         /\ pc' = "cleanup"
         /\ UNCHANGED <<stdin, input, stack, node, variable, num_vars,
                        first_token,
                        slashvar_mode, exit_status, out, start>>
  /\ UNCHANGED rest

\* case VARIABLE: output(t)
ExprVariable ==
  /\ pc = "token"
  /\ LET nt == Next_t
     IN  /\ slashvar_mode = 0
         /\ nt.tok.type = "VARIABLE"
         /\ t' = nt.tok
         /\ input_ptr' = nt.ptr
         /\ LET r == var_id(variable, num_vars, nt.tok.text)
            IN  /\ node' = Append(node, [type |-> "VARIABLE",
                                         id |-> IF r.die THEN NOID ELSE r.id])
                /\ VarIdOrDie(r)
         /\ UNCHANGED <<stdin, input, stack, slashvar_mode, out, start>>
  /\ UNCHANGED rest

\* case OPERATOR: output the operators and NOTs on top of the stack, PUSH(t)
ExprOperator ==
  /\ pc = "token"
  /\ LET nt == Next_t
     IN  /\ slashvar_mode = 0
         /\ nt.tok.type = "OPERATOR"
         /\ t' = nt.tok
         /\ input_ptr' = nt.ptr
         /\ LET k == PopRun(stack, OperatorPops)
            IN  /\ node' = OutputAll(node, Popped(stack, k))
                /\ PushOrOverflow(Below(stack, k), nt.tok)
         /\ UNCHANGED <<stdin, input, variable, num_vars, slashvar_mode,
                        exit_status, out,
                        start>>
  /\ UNCHANGED rest

\* case LPAREN: PUSH(t)
ExprLParen ==
  /\ pc = "token"
  /\ LET nt == Next_t
     IN  /\ slashvar_mode = 0
         /\ nt.tok.type = "LPAREN"
         /\ t' = nt.tok
         /\ input_ptr' = nt.ptr
         /\ PushOrOverflow(stack, nt.tok)
         /\ UNCHANGED <<stdin, input, node, variable, num_vars,
                        slashvar_mode, exit_status,
                        out, start>>
  /\ UNCHANGED rest

\* mutant of ExprRParen: the LPAREN is left on the stack
ExprRParen_KeepsLParen ==
  /\ pc = "token"
  /\ LET nt == Next_t
     IN  /\ slashvar_mode = 0
         /\ nt.tok.type = "RPAREN"
         /\ t' = nt.tok
         /\ input_ptr' = nt.ptr
         /\ LET k == PopRun(stack, TokenTypes \ {"LPAREN"})
            IN  /\ node' = OutputAll(node, Popped(stack, k))
                /\ stack' = Below(stack, k)
                /\ IF Len(Below(stack, k)) = 0
                     THEN /\ err' = Append(err, Diag("mismatched parentheses", <<>>))
                          /\ pc' = "cleanup"
                          /\ UNCHANGED first_token
                     ELSE /\ first_token' = 0
                          /\ UNCHANGED <<err, pc>>
         /\ UNCHANGED <<stdin, input, variable, num_vars, slashvar_mode,
                        exit_status, out,
                        start>>
  /\ UNCHANGED rest

\* case RPAREN: output down to the LPAREN, which is discarded; an empty
\* stack is a mismatch
ExprRParen ==
  /\ pc = "token"
  /\ LET nt == Next_t
     IN  /\ slashvar_mode = 0
         /\ nt.tok.type = "RPAREN"
         /\ t' = nt.tok
         /\ input_ptr' = nt.ptr
         /\ LET k == PopRun(stack, TokenTypes \ {"LPAREN"})
            IN  /\ node' = OutputAll(node, Popped(stack, k))
                /\ IF Len(Below(stack, k)) = 0
                     THEN /\ stack' = Below(stack, k)
                          /\ err' = Append(err, Diag("mismatched parentheses", <<>>))
                          /\ pc' = "cleanup"
                          /\ UNCHANGED first_token
                     ELSE /\ stack' = Below(stack, k + 1)
                          /\ first_token' = 0
                          /\ UNCHANGED <<err, pc>>
         /\ UNCHANGED <<stdin, input, variable, num_vars, slashvar_mode,
                        exit_status, out,
                        start>>
  /\ UNCHANGED rest

\* case NOT: PUSH(t)
ExprNot ==
  /\ pc = "token"
  /\ LET nt == Next_t
     IN  /\ slashvar_mode = 0
         /\ nt.tok.type = "NOT"
         /\ t' = nt.tok
         /\ input_ptr' = nt.ptr
         /\ PushOrOverflow(stack, nt.tok)
         /\ UNCHANGED <<stdin, input, node, variable, num_vars,
                        slashvar_mode, exit_status,
                        out, start>>
  /\ UNCHANGED rest

\* mutant of ExprSlashvars: first_token is not tested
ExprSlashvars_AnyPosition ==
  /\ pc = "token"
  /\ slashvar_mode = 0
  /\ Next_t.tok.type = "SLASHVARS"
  /\ t' = Next_t.tok
  /\ input_ptr' = Next_t.ptr
  /\ variable' = [i \in 0..(VAR_MAX - 1) |-> NULL]
  /\ num_vars' = 0
  /\ slashvar_mode' = 1
  /\ first_token' = 0
  /\ UNCHANGED <<stdin, input, stack, node, exit_status, out, err, pc, start>>
  /\ UNCHANGED rest

\* case SLASHVARS: only as the first token; clear_vars, enter slashvar mode
ExprSlashvars ==
  /\ pc = "token"
  /\ LET nt == Next_t
     IN  /\ slashvar_mode = 0
         /\ nt.tok.type = "SLASHVARS"
         /\ t' = nt.tok
         /\ input_ptr' = nt.ptr
         /\ IF first_token = 0
              THEN /\ err' = Append(err, Diag("embedded slashvars", <<>>))
                   /\ pc' = "cleanup"
                   /\ UNCHANGED <<variable, num_vars, slashvar_mode,
                                  first_token>>
              ELSE /\ variable' = clear_vars(variable, num_vars).variable
                   /\ num_vars' = clear_vars(variable, num_vars).num_vars
                   /\ slashvar_mode' = 1
                   /\ first_token' = 0
                   /\ UNCHANGED <<err, pc>>
         /\ UNCHANGED <<stdin, input, stack, node, exit_status, out, start>>
  /\ UNCHANGED rest

\* mutant of DirectiveEnd: the separator is printed after a directive line
DirectiveEnd_PrintsSeparator ==
  /\ pc = "token"
  /\ Next_t.tok = NoToken
  /\ slashvar_mode # 0
  /\ t' = NoToken
  /\ input_ptr' = NULLPTR
  /\ out' = Append(out, Blank)
  /\ pc' = "fgets"
  /\ UNCHANGED <<stdin, input, stack, node, variable, num_vars, first_token,
                 slashvar_mode, exit_status, err, start>>
  /\ UNCHANGED rest

\* next_token returns NULL on a slashvar line: reset_tokstr, continue
DirectiveEnd ==
  /\ pc = "token"
  /\ LET nt == Next_t
     IN  /\ nt.tok = NoToken
         /\ slashvar_mode # 0
         /\ t' = NoToken
         /\ input_ptr' = NULLPTR
         /\ pc' = "fgets"
         /\ UNCHANGED <<stdin, input, stack, node, variable, num_vars,
                        first_token,
                        slashvar_mode, exit_status, out, err, start>>
  /\ UNCHANGED rest

\* next_token returns NULL on an expression line
ExprEnd ==
  /\ pc = "token"
  /\ LET nt == Next_t
     IN  /\ nt.tok = NoToken
         /\ slashvar_mode = 0
         /\ t' = NoToken
         /\ input_ptr' = nt.ptr
         /\ pc' = "drain"
         /\ UNCHANGED <<stdin, input, stack, node, variable, num_vars,
                        first_token,
                        slashvar_mode, exit_status, out, err, start>>
  /\ UNCHANGED rest

\* mutant of Drain: an LPAREN left on the stack is output like an operator
Drain_IgnoresLParen ==
  /\ pc = "drain"
  /\ node' = OutputAll(node, Popped(stack, Len(stack)))
  /\ stack' = <<>>
  /\ pc' = "print_table"
  /\ UNCHANGED <<stdin, input, input_ptr, t, variable, num_vars, first_token,
                 slashvar_mode, exit_status, out, err, start>>
  /\ UNCHANGED rest

\* while(sp): output the operators left on the stack; an LPAREN is a mismatch
Drain ==
  /\ pc = "drain"
  /\ LET k == PopRun(stack, TokenTypes \ {"LPAREN"})
     IN  /\ node' = OutputAll(node, Popped(stack, k))
         /\ stack' = Below(stack, k)
         /\ IF Len(Below(stack, k)) # 0
              THEN /\ err' = Append(err, Diag("mismatched parentheses", <<>>))
                   /\ pc' = "cleanup"
              ELSE /\ pc' = "print_table"
                   /\ UNCHANGED err
  /\ UNCHANGED <<stdin, input, input_ptr, t, variable, num_vars, first_token,
                 slashvar_mode, exit_status, out, start>>
  /\ UNCHANGED rest

(***************************************************************************)
(* The table driver and the per-line cleanup                               *)
(***************************************************************************)

\* "FT"[r]
FT(r) == CASE r = 0 -> "F" [] r = 1 -> "T"

\* mutant of TableRow: the leftmost column shows the highest bit
TableRow_Reversed(nd, nv, i) ==
  Row([b \in 1..nv |-> FT(BitOf(i, nv - b))], FT(evaluate(nd, i)))

\* the body of the row loop for the assignment i
TableRow(nd, nv, i) ==
  Row([b \in 1..nv |-> FT(BitOf(i, b - 1))], FT(evaluate(nd, i)))

\* mutant of FirstRow: the row loop starts at 1 << num_vars
FirstRow_TooHigh(nv) == Shl1(nv)

\* the first assignment of the row loop: (1 << num_vars) - 1
FirstRow(nv) == Shl1(nv) - 1

\* i--
NextRow(i) == i - 1

\* mutant of TableRows: the row loop stops at i = 0 instead of after it
RECURSIVE TableRows_StopAtZero(_, _, _)
TableRows_StopAtZero(nd, nv, i) ==
  IF i = 0 THEN <<>>
  ELSE <<Row([b \in 1..nv |-> FT(BitOf(i, b - 1))], FT(evaluate(nd, i)))>>
         \o TableRows_StopAtZero(nd, nv, i - 1)

\* for(i = (1 << num_vars) - 1; i != -1; i--): the rows from i on.  i is a
\* uint64_t; the value 2^64 - 1 that 0 wraps to, and that -1 converts to in
\* the comparison, is written -1 here
RECURSIVE TableRows(_, _, _)
TableRows(nd, nv, i) ==
  IF i = -1 THEN <<>>
  ELSE <<TableRow(nd, nv, i)>> \o TableRows(nd, nv, NextRow(i))

\* the diagnostic of print_table for a failed evaluate(0)
FailDiag(fail) ==
  CASE fail = -1 -> Diag("stack overflow", <<>>)
    [] fail = -2 -> Diag("stack underflow", <<>>)
    [] fail = -3 -> Diag("stack not empty", <<>>)

\* mutant of PrintTable: the header is printed before evaluate(0) is tried
PrintTable_HeaderFirst ==
  /\ pc = "print_table"
  /\ LET fail == evaluate(node, 0)
     IN  IF fail < 0
           THEN /\ err' = Append(err, FailDiag(fail))
                /\ out' = Append(out, Header(Names(variable, num_vars)))
           ELSE /\ out' = out \o <<Header(Names(variable, num_vars))>>
                              \o TableRows(node, num_vars, FirstRow(num_vars))
                /\ UNCHANGED err
  /\ pc' = "cleanup"
  /\ UNCHANGED <<stdin, input, input_ptr, t, stack, node, variable, num_vars,
                 first_token, slashvar_mode, exit_status, start>>
  /\ UNCHANGED rest

\* print_table()
PrintTable ==
  /\ pc = "print_table"
  /\ LET fail == evaluate(node, 0)
     IN  IF fail < 0
           THEN /\ err' = Append(err, FailDiag(fail))
                /\ UNCHANGED out
           ELSE /\ out' = out \o <<Header(Names(variable, num_vars))>>
                              \o TableRows(node, num_vars, FirstRow(num_vars))
                /\ UNCHANGED err
  /\ pc' = "cleanup"
  /\ UNCHANGED <<stdin, input, input_ptr, t, stack, node, variable, num_vars,
                 first_token, slashvar_mode, exit_status, start>>
  /\ UNCHANGED rest

\* mutant of Cleanup: clear_vars is not called
Cleanup_KeepsVariables ==
  /\ pc = "cleanup"
  /\ stack' = <<>>
  /\ input_ptr' = NULLPTR
  /\ node' = <<>>
  /\ out' = Append(out, Blank)
  /\ pc' = "fgets"
  /\ UNCHANGED <<stdin, input, t, variable, num_vars, first_token,
                 slashvar_mode, exit_status, err, start>>
  /\ UNCHANGED rest

\* mutant of Cleanup: free_nodes is not called
Cleanup_KeepsNodes ==
  /\ pc = "cleanup"
  /\ stack' = <<>>
  /\ input_ptr' = NULLPTR
  /\ variable' = [i \in 0..(VAR_MAX - 1) |-> NULL]
  /\ num_vars' = 0
  /\ out' = Append(out, Blank)
  /\ pc' = "fgets"
  /\ UNCHANGED <<stdin, input, t, node, first_token, slashvar_mode,
                 exit_status, err, start>>
  /\ UNCHANGED rest

\* mutant of Cleanup: the tokens left on the parser stack are not freed
Cleanup_KeepsStack ==
  /\ pc = "cleanup"
  /\ input_ptr' = NULLPTR
  /\ variable' = clear_vars(variable, num_vars).variable
  /\ num_vars' = clear_vars(variable, num_vars).num_vars
  /\ node' = <<>>
  /\ out' = Append(out, Blank)
  /\ pc' = "fgets"
  /\ UNCHANGED <<stdin, input, t, stack, first_token, slashvar_mode,
                 exit_status, err, start>>
  /\ UNCHANGED rest

\* cleanup: free the stack, reset_tokstr, clear_vars, free_nodes, printf("\n")
Cleanup ==
  /\ pc = "cleanup"
  /\ stack' = <<>>
  /\ input_ptr' = NULLPTR
  /\ variable' = clear_vars(variable, num_vars).variable
  /\ num_vars' = clear_vars(variable, num_vars).num_vars
  /\ node' = <<>>
  /\ out' = Append(out, Blank)
  /\ pc' = "fgets"
  /\ UNCHANGED <<stdin, input, t, first_token, slashvar_mode, exit_status, err,
                 start>>
  /\ UNCHANGED rest

Next ==
  \/ Fgets
  \/ EndOfInput
  \/ TokUnknown
  \/ SlashvarVariable
  \/ SlashvarNonVariable
  \/ ExprVariable
  \/ ExprOperator
  \/ ExprLParen
  \/ ExprRParen
  \/ ExprNot
  \/ ExprSlashvars
  \/ DirectiveEnd
  \/ ExprEnd
  \/ Drain
  \/ PrintTable
  \/ Cleanup

Spec == Init /\ [][Next]_<<vars, rest>>

TypeOK ==
  /\ pc \in {"fgets", "token", "drain", "print_table", "cleanup", "exit"}
  /\ num_vars \in 0..VAR_MAX
  /\ sp \in 0..STACK_MAX
  /\ \A i \in 1..np : node[i].type = "OPERATOR" => node[i].id \in 0..6

(***************************************************************************)
(* Observations used by the properties                                     *)
(***************************************************************************)

\* the processing of the line in input is over: main is back at fgets
LineDone == pc = "fgets" /\ start.lines >= 1

\* what the current line has written so far
LineOut == SubSeq(out, start.out + 1, Len(out))
LineErr == SubSeq(err, start.err + 1, Len(err))

\* print_table has printed the table of the current line
TablePrinted == Len(LineOut) >= 1 /\ LineOut[1].kind = "header"

\* the header and the rows of the printed table
TableHeader == LineOut[1].cols
TableRowsOut == SelectSeq(LineOut, LAMBDA l : l.kind = "row")

\* the truth value a row shows in the column of the variable name
RowVal(hdr, row, name) ==
  row.cols[CHOOSE k \in 1..Len(hdr) : hdr[k] = name] = "T"

\* the assignment bitmask a row shows, the k-th column from the left (counted
\* from 0) being bit k
RECURSIVE RowMask(_)
RowMask(cols) ==
  IF cols = <<>> THEN 0
  ELSE (IF Head(cols) = "T" THEN 1 ELSE 0) + 2 * RowMask(Tail(cols))

TF(b) == IF b THEN "T" ELSE "F"

A_ == <<"A">>
B_ == <<"B">>
C_ == <<"C">>

(***************************************************************************)
(* C1                                                                      *)
(***************************************************************************)

\* C1 as stated: for the single input line A XOR B the program prints the
\* header A B and then the four rows (A, B, result) = (T,T,F), (T,F,T),
\* (F,T,T), (F,F,F) in this order.
C1_Original ==
  (LineDone /\ start.lines = 1 /\ input = L_A_XOR_B) =>
    LineOut = <<Header(<<A_, B_>>),
                Row(<<"T", "T">>, "F"), Row(<<"T", "F">>, "T"),
                Row(<<"F", "T">>, "T"), Row(<<"F", "F">>, "F"), Blank>>

\* C1 amended: for the single input line A XOR B the program prints the
\* header A B and then exactly the four rows (A, B, result) = (T,T,F),
\* (F,T,T), (T,F,T), (F,F,F) in this order (A is bit 0 of the descending
\* bitmask, so the column of A alternates from row to row), and no diagnostic.
C1_XorTable ==
  (LineDone /\ start.lines = 1 /\ input = L_A_XOR_B) =>
    /\ LineOut = <<Header(<<A_, B_>>),
                   Row(<<"T", "T">>, "F"), Row(<<"F", "T">>, "T"),
                   Row(<<"T", "F">>, "T"), Row(<<"F", "F">>, "F"), Blank>>
    /\ LineErr = <<>>

C1_Witness ==
  /\ LineDone /\ start.lines = 1 /\ input = L_A_XOR_B
  /\ TablePrinted /\ Len(TableRowsOut) = 4

(***************************************************************************)
(* C2                                                                      *)
(***************************************************************************)

\* C2 as stated: A OR B AND C is parsed as A OR (B AND C): in every row of
\* its table the result equals A OR (B AND C).
C2_Original ==
  (LineDone /\ input = L_A_OR_B_AND_C) =>
    /\ TablePrinted
    /\ \A i \in 1..Len(TableRowsOut) :
         LET row == TableRowsOut[i]
             a == RowVal(TableHeader, row, A_)
             b == RowVal(TableHeader, row, B_)
             c == RowVal(TableHeader, row, C_)
         IN  row.res = TF(a \/ (b /\ c))

\* C2 amended: A OR B AND C is parsed as (A OR B) AND C (binary operators
\* have equal precedence and group left to right): its node sequence is
\* A B OR C AND and in every row of its table the result equals
\* (A OR B) AND C.
C2_LeftToRight ==
  /\ (pc = "print_table" /\ input = L_A_OR_B_AND_C) =>
       /\ np = 5
       /\ \A i \in {1, 2, 4} : node[i].type = "VARIABLE"
       /\ <<variable[node[1].id], variable[node[2].id], variable[node[4].id]>>
            = <<A_, B_, C_>>
       /\ node[3] = [type |-> "OPERATOR", id |-> OP_OR]
       /\ node[5] = [type |-> "OPERATOR", id |-> OP_AND]
  /\ (LineDone /\ input = L_A_OR_B_AND_C) =>
       /\ TablePrinted
       /\ Len(TableRowsOut) >= 8
       /\ \A i \in 1..Len(TableRowsOut) :
            LET row == TableRowsOut[i]
                a == RowVal(TableHeader, row, A_)
                b == RowVal(TableHeader, row, B_)
                c == RowVal(TableHeader, row, C_)
            IN  row.res = TF((a \/ b) /\ c)

C2_Witness ==
  /\ LineDone /\ input = L_A_OR_B_AND_C /\ TablePrinted
  /\ \E i \in 1..Len(TableRowsOut) :
       /\ RowVal(TableHeader, TableRowsOut[i], A_)
       /\ ~RowVal(TableHeader, TableRowsOut[i], C_)
       /\ TableRowsOut[i].res = "F"

(***************************************************************************)
(* C3, C4                                                                  *)
(***************************************************************************)

\* the node sequence with each node shown by its type and the text of its
\* variable or operator
NodeSyms ==
  [i \in 1..np |->
     CASE node[i].type = "VARIABLE" -> Sym("VARIABLE", variable[node[i].id])
       [] node[i].type = "OPERATOR" ->
            Sym("OPERATOR", operator[node[i].id + 1])
       [] OTHER -> Sym(node[i].type, <<>>)]

\* the assignment of a row of the printed table, by variable name
RowAssignment(row) ==
  [name \in {TableHeader[k] : k \in 1..Len(TableHeader)} |->
     RowVal(TableHeader, row, name)]

HasNot(c) == \E i \in 1..Len(c.prims) : c.prims[i].neg

\* the parser has emitted the postfix sequence of the chain c
ChainParsed(c) == NodeSyms = ChainPostfix(c, Len(c.prims))

\* every row of the printed table shows the value of the chain c
ChainTabulated(c) ==
  /\ LineErr = <<>>
  /\ TablePrinted
  /\ Len(TableRowsOut) >= 2
  /\ \A i \in 1..Len(TableRowsOut) :
       TableRowsOut[i].res
         = TF(ChainValue(c, Len(c.prims), RowAssignment(TableRowsOut[i])))

\* C3: for every chain x1 op1 x2 ... opk x(k+1) of primaries without NOT
\* (variables and parenthesized groups) the parser emits the postfix
\* sequence x1 x2 op1 x3 op2 ... x(k+1) opk, each group as a unit before the
\* operator that follows it, and the table shows the value of
\* ((x1 op1 x2) op2 x3) ... in every row.
C3_LeftAssociative ==
  /\ (pc = "print_table" /\ IsChainLine(input) /\ ~HasNot(ChainOf(input)))
       => ChainParsed(ChainOf(input))
  /\ (LineDone /\ IsChainLine(input) /\ ~HasNot(ChainOf(input)))
       => ChainTabulated(ChainOf(input))

\* a chain of two operators whose groupings differ in some row:
\* A IMP B IMP C at A = F, B = T, C = F is F as (A IMP B) IMP C
C3_Witness ==
  /\ LineDone
  /\ IsChainLine(input)
  /\ ~HasNot(ChainOf(input))
  /\ ChainOf(input).ops = <<OP_IMP, OP_IMP>>
  /\ \A i \in 1..3 : ChainOf(input).prims[i].grp = NOGROUP
  /\ TablePrinted
  /\ \E i \in 1..Len(TableRowsOut) :
       /\ TableRowsOut[i].cols = <<"F", "T", "F">>
       /\ TableRowsOut[i].res = "F"

\* C4: NOT negates only the primary that follows it.  For every chain with a
\* NOT before some primary (a variable or a parenthesized group) the Not node
\* is emitted directly after the nodes of that primary and before the pending
\* binary operator, and the table shows the value with only that primary
\* negated; NOT A AND B yields (NOT A) AND B and A AND NOT B yields
\* A AND (NOT B) in every row.
C4_NotBindsTighter ==
  /\ (pc = "print_table" /\ IsChainLine(input) /\ HasNot(ChainOf(input)))
       => ChainParsed(ChainOf(input))
  /\ (LineDone /\ IsChainLine(input) /\ HasNot(ChainOf(input)))
       => ChainTabulated(ChainOf(input))
  /\ (pc = "print_table" /\ input = L_NOT_A_AND_B)
       => NodeSyms = <<Sym("VARIABLE", A_), Sym("NOT", <<>>),
                       Sym("VARIABLE", B_), Sym("OPERATOR", operator[2])>>
  /\ (pc = "print_table" /\ input = L_A_AND_NOT_B)
       => NodeSyms = <<Sym("VARIABLE", A_), Sym("VARIABLE", B_),
                       Sym("NOT", <<>>), Sym("OPERATOR", operator[2])>>
  /\ (LineDone /\ input \in {L_NOT_A_AND_B, L_A_AND_NOT_B}) =>
       /\ TablePrinted
       /\ Len(TableRowsOut) >= 4
       /\ \A i \in 1..Len(TableRowsOut) :
            LET row == TableRowsOut[i]
                a == RowVal(TableHeader, row, A_)
                b == RowVal(TableHeader, row, B_)
            IN  row.res = TF(IF input = L_NOT_A_AND_B THEN (~a) /\ b
                             ELSE a /\ (~b))

\* NOT A AND B at A = T, B = T is F
C4_Witness ==
  /\ LineDone /\ input = L_NOT_A_AND_B /\ TablePrinted
  /\ \E i \in 1..Len(TableRowsOut) :
       /\ RowVal(TableHeader, TableRowsOut[i], A_)
       /\ RowVal(TableHeader, TableRowsOut[i], B_)
       /\ TableRowsOut[i].res = "F"

(***************************************************************************)
(* C5                                                                      *)
(***************************************************************************)

\* C5: an Operator node combines the value a pushed first (the left operand)
\* with the value b pushed last (the right operand) by the rule of its
\* operator: for A <op> B, op any of the seven operators, the table has the
\* four rows of all (a, b) and each result is OR = a or b, AND = a and b,
\* XOR = a # b, NAND = not(a and b), NOR = not(a or b), IMP = (not a) or b,
\* EQU = (a = b); A -> B is false only in the row A = T, B = F.
C5_OperatorRules ==
  /\ \A id \in 0..(Len(operator) - 1) :
       (LineDone /\ input = OperatorLine(id)) =>
         /\ TablePrinted
         /\ {<<RowVal(TableHeader, TableRowsOut[i], A_),
                 RowVal(TableHeader, TableRowsOut[i], B_)>> :
                 i \in 1..Len(TableRowsOut)} = BOOLEAN \X BOOLEAN
         /\ \A i \in 1..Len(TableRowsOut) :
              LET row == TableRowsOut[i]
                  a == RowVal(TableHeader, row, A_)
                  b == RowVal(TableHeader, row, B_)
              IN  row.res =
                    TF(CASE id = OP_OR   -> a \/ b
                         [] id = OP_AND  -> a /\ b
                         [] id = OP_XOR  -> a # b
                         [] id = OP_NAND -> ~(a /\ b)
                         [] id = OP_NOR  -> ~(a \/ b)
                         [] id = OP_IMP  -> (~a) \/ b
                         [] id = OP_EQU  -> a = b)
  /\ (LineDone /\ input = L_A_ARROW_B) =>
       /\ TablePrinted
       /\ \A i \in 1..Len(TableRowsOut) :
            LET row == TableRowsOut[i]
            IN  row.res = "F" <=> (/\ RowVal(TableHeader, row, A_)
                                   /\ ~RowVal(TableHeader, row, B_))

\* A IMP B has been tabulated, with F in the row A = T, B = F
C5_Witness ==
  /\ LineDone /\ input = OperatorLine(OP_IMP) /\ start.lines = 1
  /\ TablePrinted
  /\ Row(<<"T", "F">>, "F") \in {TableRowsOut[i] : i \in 1..Len(TableRowsOut)}

(***************************************************************************)
(* C6, C7                                                                  *)
(***************************************************************************)

\* print_table has just printed the table: the registry and the nodes of the
\* line are still in place
TableJustPrinted == pc = "cleanup" /\ TablePrinted

\* C6: a printed table for n registered variables is one header of exactly n
\* name columns followed by exactly 2^n rows and nothing else, each
\* assignment in [0, 2^n) is shown by exactly one row, and the result of each
\* row is the value of the node sequence at the assignment the row shows.
C6_FullTable ==
  TableJustPrinted =>
    LET n == num_vars
        rows == TableRowsOut
    IN  /\ Len(TableHeader) = n
        /\ Len(rows) = 2 ^ n
        /\ Len(LineOut) = 1 + Len(rows)
        /\ \A a \in 0..(2 ^ n - 1) :
             Cardinality({i \in 1..Len(rows) : RowMask(rows[i].cols) = a}) = 1
        /\ \A i \in 1..Len(rows) :
             /\ Len(rows[i].cols) = n
             /\ evaluate(node, RowMask(rows[i].cols)) \in {0, 1}
             /\ rows[i].res
                  = TF(evaluate(node, RowMask(rows[i].cols)) = 1)

\* a table of eight rows for three variables
C6_Witness ==
  /\ TableJustPrinted
  /\ num_vars = 3
  /\ Len(TableRowsOut) = 8
  /\ {RowMask(TableRowsOut[i].cols) : i \in 1..8} = 0..7

\* C7: the rows are printed in strictly descending bitmask order from
\* 2^n - 1 down to 0, so the first row shows every variable true and the last
\* row every variable false; the k-th column from the left (counted from 0)
\* is headed by the variable with registry id k and shows bit k of the
\* bitmask of the row.
C7_DescendingRows ==
  TableJustPrinted =>
    LET n == num_vars
        rows == TableRowsOut
    IN  /\ Len(rows) = 2 ^ n
        /\ \A j \in 1..Len(rows) : RowMask(rows[j].cols) = 2 ^ n - j
        /\ \A k \in 0..(n - 1) :
             /\ TableHeader[k + 1] = variable[k]
             /\ \A j \in 1..Len(rows) :
                  rows[j].cols[k + 1]
                    = TF(((2 ^ n - j) \div (2 ^ k)) % 2 = 1)
        /\ \A k \in 1..n : rows[1].cols[k] = "T" /\ rows[Len(rows)].cols[k] = "F"

\* the second row of a table of two variables shows the variable of id 0
\* false and the variable of id 1 true
C7_Witness ==
  /\ TableJustPrinted
  /\ num_vars = 2
  /\ Len(TableRowsOut) = 4
  /\ TableRowsOut[2].cols = <<"F", "T">>
  /\ TableRowsOut[4].cols = <<"F", "F">>

(***************************************************************************)
(* C8                                                                      *)
(***************************************************************************)

\* the tokens of the string s from the cursor ptr on, up to the end of the
\* string or up to and including the first UNKNOWN token
RECURSIVE TokensFrom(_, _)
TokensFrom(s, ptr) ==
  LET nt == next_token(s, ptr)
  IN  IF nt.tok = NoToken THEN <<>>
      ELSE IF nt.tok.type = "UNKNOWN" THEN <<nt.tok>>
      ELSE <<nt.tok>> \o TokensFrom(s, nt.ptr)

LineTokens(line) == TokensFrom(line, NULLPTR)

\* what a left-to-right scan of the tokens with a parenthesis counter meets
\* first: "unknown" token, "directive" marker as first token, "embedded"
\* marker, "close" for a RightParen with no LeftParen open, and at the end
\* of the line "open" if a LeftParen is still open, else "balanced"
RECURSIVE ParenScan(_, _, _)
ParenScan(toks, i, depth) ==
  IF i > Len(toks) THEN (IF depth > 0 THEN "open" ELSE "balanced")
  ELSE CASE toks[i].type = "UNKNOWN" -> "unknown"
         [] toks[i].type = "SLASHVARS" ->
              IF i = 1 THEN "directive" ELSE "embedded"
         [] toks[i].type = "LPAREN" -> ParenScan(toks, i + 1, depth + 1)
         [] toks[i].type = "RPAREN" ->
              IF depth = 0 THEN "close" ELSE ParenScan(toks, i + 1, depth - 1)
         [] OTHER -> ParenScan(toks, i + 1, depth)

ParenEvent(line) == ParenScan(LineTokens(line), 1, 0)

Mismatched == Diag("mismatched parentheses", <<>>)

\* the state in which main processes the first line
FreshLineState ==
  /\ sp = 0
  /\ np = 0
  /\ num_vars = 0
  /\ variable = NoVariables
  /\ input_ptr = NULLPTR

\* C8: an expression line in which a RightParen is met while no LeftParen is
\* open, or at whose end a LeftParen is still open (the line short enough not
\* to overflow the side-stack), gets the Mismatched Parentheses diagnostic
\* and neither header nor row, only the separator; main is then in the state
\* in which it processes a first line, and the line A AND B read next gets
\* its table.  The examples are (A AND B and A AND B).
C8_MismatchedParentheses ==
  /\ (/\ LineDone
      /\ \/ input \in {L_OPEN_A_AND_B, L_A_AND_B_CLOSE}
         \/ /\ Len(LineTokens(input)) <= STACK_MAX
            /\ ParenEvent(input) \in {"close", "open"})
       => /\ LineErr = <<Mismatched>>
          /\ LineOut = <<Blank>>
          /\ FreshLineState
  /\ (/\ LineDone
      /\ start.lines = 2
      /\ start.err = 1
      /\ err[1] = Mismatched
      /\ input = L_A_AND_B)
       => /\ start.vars = <<>>
          /\ LineErr = <<>>
          /\ LineOut = <<Header(<<A_, B_>>),
                         Row(<<"T", "T">>, "T"), Row(<<"F", "T">>, "F"),
                         Row(<<"T", "F">>, "F"), Row(<<"F", "F">>, "F"),
                         Blank>>

\* A AND B has got its table after a line with mismatched parentheses
C8_Witness ==
  /\ LineDone
  /\ start.lines = 2
  /\ start.err = 1
  /\ err[1] = Mismatched
  /\ out[1] = Blank
  /\ input = L_A_AND_B
  /\ TablePrinted

(***************************************************************************)
(* C9                                                                      *)
(***************************************************************************)

\* no token starts with the character at index p of s
CannotStartToken(s, p) ==
  /\ s[p] \notin WHITESPACE \cup WordChars
                   \cup {"(", ")", "/", "!", "|", "&", "^", "="}
  /\ ~(s[p] = "-" /\ p + 1 <= Len(s) /\ s[p + 1] = ">")

\* main has met an UNKNOWN token and is about to clean up
UnknownMet == pc = "cleanup" /\ t.type = "UNKNOWN"

\* C9 as stated: the Unknown token has the single offending character as its
\* text; the line is aborted with the Unexpected Character diagnostic naming
\* that character and no table is printed.
C9_Original ==
  UnknownMet =>
    /\ t.text = <<input[input_ptr]>>
    /\ LineErr = <<Diag("unexpected character", t.text)>>
    /\ LineOut = <<>>

\* C9 amended: for a character that cannot start any token the tokenizer
\* returns an Unknown token with empty text and leaves the cursor on the
\* offending character; the line is aborted with the Unexpected Character
\* diagnostic naming the character under the cursor, no table is printed,
\* only the separator, and the cursor never moves past the offending
\* character, so the rest of the line is not tokenized.  For A $ B the
\* character named is $.
C9_UnknownCharacter ==
  /\ UnknownMet =>
       /\ t.text = <<>>
       /\ input_ptr \in 1..Len(input)
       /\ CannotStartToken(input, input_ptr)
       /\ LineErr = <<Diag("unexpected character", <<input[input_ptr]>>)>>
       /\ LineOut = <<>>
       /\ np + sp <= Len(LineTokens(input)) - 1
  /\ (LineDone /\ t.type = "UNKNOWN") =>
       /\ Len(LineErr) = 1
       /\ LineErr[1].kind = "unexpected character"
       /\ LineOut = <<Blank>>
  /\ (pc \in {"cleanup", "fgets"} /\ start.lines >= 1 /\ input = L_A_DOLLAR_B)
       => /\ t.type = "UNKNOWN"
          /\ LineErr = <<Diag("unexpected character", <<"$">>)>>
          /\ ~TablePrinted

\* the $ of A $ B has been met
C9_Witness ==
  /\ UnknownMet
  /\ input = L_A_DOLLAR_B
  /\ input[input_ptr] = "$"
  /\ np = 1

(***************************************************************************)
(* C10                                                                     *)
(***************************************************************************)

\* the sequence base extended by the names it does not hold yet, in the
\* order in which they first occur in names
RECURSIVE AppendNew(_, _)
AppendNew(base, names) ==
  IF names = <<>> THEN base
  ELSE AppendNew(IF \E i \in 1..Len(base) : base[i] = Head(names)
                   THEN base ELSE Append(base, Head(names)),
                 Tail(names))

\* the texts of the VARIABLE tokens of a line, in order
VariableTexts(line) ==
  LET vs == SelectSeq(LineTokens(line), LAMBDA tok : tok.type = "VARIABLE")
  IN  [i \in 1..Len(vs) |-> vs[i].text]

\* a directive line / v1 v2 ... vk
IsDirective(line) ==
  LET toks == LineTokens(line)
  IN  /\ toks # <<>>
      /\ toks[1].type = "SLASHVARS"
      /\ \A i \in 2..Len(toks) : toks[i].type = "VARIABLE"

\* C10: after a directive line / v1 ... vk the registry holds exactly
\* v1 ... vk with ids 0 .. k-1 in that order (a name that is repeated keeps
\* the id of its first occurrence), whatever it held before, and no node has
\* been built and no table printed; the table of an expression line has the
\* columns the registry held when the line was read, followed by the other
\* variables of the line in first-seen order; / B A and then A AND B prints
\* the header B A.
C10_Directive ==
  /\ (LineDone /\ IsDirective(input)) =>
       /\ Names(variable, num_vars) = AppendNew(<<>>, VariableTexts(input))
       /\ \A i \in num_vars..(VAR_MAX - 1) : variable[i] = NULL
       /\ np = 0
       /\ sp = 0
       /\ ~TablePrinted
       /\ LineErr = <<>>
  /\ TableJustPrinted =>
       /\ TableHeader = AppendNew(start.vars, VariableTexts(input))
       /\ TableHeader = Names(variable, num_vars)
  /\ (LineDone /\ start.vars = <<B_, A_>> /\ input = L_A_AND_B) =>
       LineOut = <<Header(<<B_, A_>>),
                   Row(<<"T", "T">>, "T"), Row(<<"F", "T">>, "F"),
                   Row(<<"T", "F">>, "F"), Row(<<"F", "F">>, "F"), Blank>>

\* A AND B has got the header B A after / B A
C10_Witness ==
  /\ LineDone
  /\ start.lines = 2
  /\ start.vars = <<B_, A_>>
  /\ input = L_A_AND_B
  /\ TablePrinted
  /\ TableHeader = <<B_, A_>>

(***************************************************************************)
(* C11                                                                     *)
(***************************************************************************)

\* the table of A AND B in the column order cols (A B or B A)
AndTable(cols) ==
  <<Header(cols),
    Row(<<"T", "T">>, "T"), Row(<<"F", "T">>, "F"),
    Row(<<"T", "F">>, "F"), Row(<<"F", "F">>, "F")>>

\* the third line is read after the directive / B A and one expression line
\* over A and B that has printed its table in the order B A
SecondLineAfterDirective ==
  /\ start.lines = 3
  /\ start.out = 6
  /\ SubSeq(out, 1, 5) = AndTable(<<B_, A_>>)
  /\ input \in {L_A_AND_B, L_B_AND_A}

\* C11 as stated: after / B A every following expression line over A and B
\* prints its columns in the order B A; here the second such line.
C11_Original ==
  (LineDone /\ SecondLineAfterDirective) => TableHeader = <<B_, A_>>

\* C11 amended: the column order of a directive line is in effect for the one
\* expression line that follows it.  The cleanup of every line that is not a
\* well-formed directive, successful or not, empties the registry, so the
\* line after it starts with no registered name and prints its columns in
\* first-seen order: after / B A the first A AND B prints B A and the second
\* prints A B.
C11_OrderForOneLine ==
  /\ (LineDone /\ ~IsDirective(input)) =>
       /\ num_vars = 0
       /\ variable = NoVariables
  /\ (LineDone /\ start.lines = 2 /\ start.vars = <<B_, A_>>
        /\ input \in {L_A_AND_B, L_B_AND_A}) =>
       LineOut = AndTable(<<B_, A_>>) \o <<Blank>>
  /\ (LineDone /\ SecondLineAfterDirective) =>
       /\ start.vars = <<>>
       /\ LineOut = AndTable(IF input = L_A_AND_B THEN <<A_, B_>>
                                                   ELSE <<B_, A_>>)
                      \o <<Blank>>

\* the second A AND B after / B A has printed the header A B
C11_Witness ==
  /\ LineDone
  /\ SecondLineAfterDirective
  /\ input = L_A_AND_B
  /\ TableHeader = <<A_, B_>>

(***************************************************************************)
(* C12                                                                     *)
(***************************************************************************)

\* main is at the loop head and the line it has just processed, if any, is
\* not a well-formed directive
AfterOrdinaryLine ==
  pc = "fgets" /\ (start.lines = 0 \/ ~IsDirective(input))

\* C12: what main, next_token and print_table read while they process a line
\* (the parser stack, the nodes, the tokenizer cursor, the registry) is, when
\* the line is read, the same as when the first line is read, whatever lines
\* came before, unless the line directly before is a well-formed directive,
\* which changes only the registry; so a line that starts with an empty
\* registry writes the same header, rows and diagnostic after any earlier
\* lines: A AND B, B AND A and A B write what they write as a first line.
C12_LineIndependent ==
  /\ pc = "fgets" =>
       /\ sp = 0
       /\ np = 0
       /\ input_ptr = NULLPTR
  /\ AfterOrdinaryLine => FreshLineState
  /\ (LineDone /\ start.vars = <<>> /\ input = L_A_AND_B) =>
       /\ LineOut = AndTable(<<A_, B_>>) \o <<Blank>>
       /\ LineErr = <<>>
  /\ (LineDone /\ start.vars = <<>> /\ input = L_B_AND_A) =>
       /\ LineOut = AndTable(<<B_, A_>>) \o <<Blank>>
       /\ LineErr = <<>>
  /\ (LineDone /\ start.vars = <<>> /\ input = L_A_B) =>
       /\ LineOut = <<Blank>>
       /\ LineErr = <<Diag("stack not empty", <<>>)>>

\* A AND B has printed the table of a first line as the third line, after a
\* directive and a line that failed
C12_Witness ==
  /\ LineDone
  /\ start.lines = 3
  /\ start.out = 1
  /\ start.err = 1
  /\ err[1] = Diag("stack not empty", <<>>)
  /\ input = L_A_AND_B
  /\ LineOut = AndTable(<<A_, B_>>) \o <<Blank>>

(***************************************************************************)
(* C13                                                                     *)
(***************************************************************************)

\* the assignments of the registered variables
Assignments == 0..(2 ^ num_vars - 1)

\* evaluate fails on the nodes of the line for some assignment
EvalFails == \E a \in Assignments : evaluate(node, a) < 0

\* C13: whether evaluate fails on the nodes handed to print_table does not
\* depend on the assignment, so the one evaluation at assignment 0 decides
\* it; and when evaluate fails for some assignment the line writes neither
\* header nor row, only one diagnostic (and then the separator).  No line
\* writes both a diagnostic and a header or a row.
C13_NoPartialTable ==
  /\ pc = "print_table" =>
       \A a \in Assignments :
         evaluate(node, a) < 0 => evaluate(node, 0) = evaluate(node, a)
  /\ (pc = "cleanup" /\ EvalFails) =>
       /\ LineOut = <<>>
       /\ Len(LineErr) = 1
  /\ (pc = "cleanup" /\ sp = 0 /\ t = NoToken /\ EvalFails) =>
       LineErr = <<FailDiag(evaluate(node, 0))>>
  /\ (start.lines >= 1 /\ LineErr # <<>>) =>
       \A i \in 1..Len(LineOut) : LineOut[i] = Blank

\* print_table has returned without printing for the nodes A B, which leave
\* two values on the stack of evaluate
C13_Witness ==
  /\ pc = "cleanup"
  /\ input = L_A_B
  /\ np = 2
  /\ evaluate(node, 0) = -3
  /\ LineErr = <<Diag("stack not empty", <<>>)>>
  /\ LineOut = <<>>

(***************************************************************************)
(* C14                                                                     *)
(***************************************************************************)

\* the diagnostics after which main goes on with the next line
LineDiagKinds ==
  {"unexpected character", "mismatched parentheses", "embedded slashvars",
   "non-variable in slashvar line", "stack overflow", "stack underflow",
   "stack not empty"}

\* var_id has called die
Died == \E i \in 1..Len(err) : err[i].kind = "maximum of variables"

\* the diagnostic each line of FailingLines gets as a first line
FailureOf(line) ==
  CASE line = L_A_DOLLAR_B -> Diag("unexpected character", <<"$">>)
    [] line \in {L_OPEN_A_AND_B, L_A_AND_B_CLOSE} -> Mismatched
    [] line = L_A_SLASH_B -> Diag("embedded slashvars", <<>>)
    [] line \in {L_SLASH_A_SLASH_B} ->
         Diag("non-variable in slashvar line", <<"/">>)
    [] line = L_SLASH_B_A_AND ->
         Diag("non-variable in slashvar line", <<"A", "N", "D">>)
    [] line \in {L_DEEP_PARENS, L_MANY_OPERANDS} ->
         Diag("stack overflow", <<>>)
    [] line = L_AND -> Diag("stack underflow", <<>>)
    [] line = L_A_B -> Diag("stack not empty", <<>>)

\* C14: a diagnostic of a line never ends the program: the process has an
\* exit status only when main has returned or died, and unless var_id has
\* died main returns only when no line is left to read, with status 0.
\* After each kind of failure - unexpected character, mismatched
\* parentheses, embedded marker, non-variable in a directive, overflow of the
\* parser stack and of the evaluator stack, underflow, leftover values - main
\* is back at the loop head, and the line A AND B or B AND A read next gets
\* its table.
C14_Recoverable ==
  /\ (exit_status # NOT_EXITED) <=> (pc = "exit")
  /\ (pc = "exit" /\ ~Died) => (exit_status = 0 /\ stdin = <<>>)
  /\ (pc # "exit" /\ start.lines >= 1) =>
       \A i \in 1..Len(err) : err[i].kind \in LineDiagKinds
  /\ (LineDone /\ start.lines = 1 /\ input \in FailingLines) =>
       /\ LineErr = <<FailureOf(input)>>
       /\ LineOut = <<Blank>>
  /\ (LineDone /\ start.lines = 2 /\ start.err = 1 /\ start.out = 1
        /\ input \in {L_A_AND_B, L_B_AND_A}) =>
       /\ LineErr = <<>>
       /\ LineOut = AndTable(IF input = L_A_AND_B THEN <<A_, B_>>
                                                   ELSE <<B_, A_>>)
                      \o <<Blank>>
  /\ (pc = "exit" /\ start.lines = 2 /\ start.err = 1
        /\ input \in {L_A_AND_B, L_B_AND_A}) =>
       /\ exit_status = 0
       /\ Len(out) = 7
       /\ Len(err) = 1

\* main has returned 0 after a line that overflowed the stack of evaluate
\* and the table of the line read after it
C14_Witness ==
  /\ pc = "exit"
  /\ exit_status = 0
  /\ start.lines = 2
  /\ err = <<Diag("stack overflow", <<>>)>>
  /\ input = L_A_AND_B
  /\ out = <<Blank>> \o AndTable(<<A_, B_>>) \o <<Blank>>

(***************************************************************************)
(* C15                                                                     *)
(***************************************************************************)

\* the names NameNo(0), ..., NameNo(k - 1)
ManyNames(k) == [i \in 1..k |-> NameNo(i - 1)]

\* C15: the registry never holds more than VAR_MAX names, has no entry
\* outside 0 .. VAR_MAX - 1 and no variable node has an id outside that
\* range.  var_id dies exactly on a variable token whose name is not among
\* the VAR_MAX registered names, in an expression line and in a directive
\* line: the process then has exit status 1, has written the diagnostic as
\* its last output, and takes no further step, so the lines that are left
\* are not read.
C15_CapacityFatal ==
  /\ num_vars \in 0..VAR_MAX
  /\ DOMAIN variable = 0..(VAR_MAX - 1)
  /\ \A i \in 0..(VAR_MAX - 1) : (variable[i] # NULL) <=> (i < num_vars)
  /\ \A i \in 1..np :
       node[i].type = "VARIABLE" =>
         \/ node[i].id \in 0..(num_vars - 1)
         \/ Died /\ i = np /\ node[i].id = NOID
  /\ Died <=> (pc = "exit" /\ exit_status = 1)
  /\ Died =>
       /\ num_vars = VAR_MAX
       /\ t.type = "VARIABLE"
       /\ \A i \in 0..(VAR_MAX - 1) : variable[i] # t.text
       /\ err[Len(err)] = Diag("maximum of variables", <<>>)
       /\ LineOut = <<>>
  /\ pc = "exit" => ~ENABLED Next
  /\ (start.lines >= 1 /\ input \in {L_65_NAMES, L_SLASH_65_NAMES}
        /\ pc \in {"exit", "fgets", "cleanup", "print_table"}) =>
       /\ Died
       /\ t.text = NameNo(VAR_MAX)
       /\ Names(variable, num_vars) = ManyNames(VAR_MAX)
       /\ stdin = <<L_A_AND_B>>
  /\ (start.lines = 2 /\ start.vars = ManyNames(VAR_MAX)
        /\ pc \in {"exit", "fgets", "cleanup", "print_table"}) =>
       /\ Died
       /\ t.text = A_
       /\ Names(variable, num_vars) = ManyNames(VAR_MAX)

\* var_id has died on the 65th name of an expression line, with a line left
\* to read
C15_Witness ==
  /\ pc = "exit"
  /\ exit_status = 1
  /\ input = L_65_NAMES
  /\ num_vars = VAR_MAX
  /\ t.text = NameNo(VAR_MAX)
  /\ stdin = <<L_A_AND_B>>

(***************************************************************************)
(* C16                                                                     *)
(***************************************************************************)

\* the number of separator lines the current line has written
Separators == Len(SelectSeq(LineOut, LAMBDA l : l = Blank))

\* C16 as stated: a well-formed directive line prints no table and writes
\* exactly one blank separator line.
C16_Original ==
  (LineDone /\ IsDirective(input)) =>
    /\ ~TablePrinted
    /\ LineOut = <<Blank>>

\* C16 amended: a well-formed directive line prints no table and writes
\* nothing at all to standard output, no separator either, and no
\* diagnostic; every other line, successful or failing, writes exactly one
\* separator, as the last line of its output.
C16_DirectiveSilent ==
  /\ (LineDone /\ IsDirective(input)) =>
       /\ ~TablePrinted
       /\ LineOut = <<>>
       /\ LineErr = <<>>
  /\ (LineDone /\ ~IsDirective(input)) =>
       /\ LineOut # <<>>
       /\ LineOut[Len(LineOut)] = Blank
       /\ Separators = 1

\* / B A has been processed and nothing is written
C16_Witness ==
  /\ LineDone
  /\ input = L_SLASH_B_A
  /\ Names(variable, num_vars) = <<B_, A_>>
  /\ out = <<>>
  /\ err = <<>>

(***************************************************************************)
(* C17                                                                     *)
(***************************************************************************)

\* the index of the first marker token of a line that is not its first
\* token, 0 if there is none
MarkerPos(line) ==
  LET toks == LineTokens(line)
      S == {k \in 2..Len(toks) : toks[k].type = "SLASHVARS"}
  IN  IF S = {} THEN 0 ELSE Min(S)

\* the texts of the VARIABLE tokens before the token of index k
NamesBefore(line, k) ==
  LET vs == SelectSeq(SubSeq(LineTokens(line), 1, k - 1),
                      LAMBDA tok : tok.type = "VARIABLE")
  IN  [i \in 1..Len(vs) |-> vs[i].text]

\* the line is short enough to overflow neither the parser stack nor the
\* registry
ShortLine(line) == Len(LineTokens(line)) <= VAR_MAX

\* an expression line whose first failure is a marker that is not the first
\* token
MarkerInExpression(line) ==
  ShortLine(line) /\ ParenEvent(line) = "embedded"

\* a directive line in which the first token after the leading marker that
\* is not a variable is another marker
MarkerInDirective(line) ==
  LET toks == LineTokens(line)
  IN  /\ ShortLine(line)
      /\ toks # <<>>
      /\ toks[1].type = "SLASHVARS"
      /\ MarkerPos(line) # 0
      /\ \A j \in 2..(MarkerPos(line) - 1) : toks[j].type = "VARIABLE"

Embedded == Diag("embedded slashvars", <<>>)

\* C17 as stated: a marker that is not the first token fails the line with
\* the Embedded Variable-Order Marker error, in an expression line and in a
\* directive line.
C17_Original ==
  (LineDone /\ (MarkerInExpression(input) \/ MarkerInDirective(input))) =>
    LineErr = <<Embedded>>

\* C17 amended: a marker that is not the first token fails the line, with
\* the Embedded Variable-Order Marker error when the line started as an
\* expression (A / B) and with the Non-Variable In Order Directive error
\* naming / when the line is a directive (/ A / B).  The marker itself does
\* not reset the registry: when main jumps to cleanup the registry holds
\* what it held at the start of the line (in a directive: nothing) plus the
\* names before the marker.  No table is printed, and the cleanup of the
\* failed line then empties the registry.
C17_MarkerNotFirst ==
  /\ (pc \in {"cleanup", "fgets"} /\ start.lines >= 1
        /\ MarkerInExpression(input)) =>
       /\ LineErr = <<Embedded>>
       /\ ~TablePrinted
       /\ pc = "cleanup" =>
            Names(variable, num_vars)
              = AppendNew(start.vars, NamesBefore(input, MarkerPos(input)))
  /\ (pc \in {"cleanup", "fgets"} /\ start.lines >= 1
        /\ MarkerInDirective(input)) =>
       /\ LineErr = <<Diag("non-variable in slashvar line", <<"/">>)>>
       /\ ~TablePrinted
       /\ pc = "cleanup" =>
            Names(variable, num_vars)
              = AppendNew(<<>>, NamesBefore(input, MarkerPos(input)))
  /\ (LineDone /\ (MarkerInExpression(input) \/ MarkerInDirective(input))) =>
       /\ LineOut = <<Blank>>
       /\ FreshLineState
  /\ (LineDone /\ input = L_A_SLASH_B) => LineErr = <<Embedded>>

\* the second marker of / A / B has failed the line as a non-variable, with
\* A still registered
C17_Witness ==
  /\ pc = "cleanup"
  /\ input = L_SLASH_A_SLASH_B
  /\ LineErr = <<Diag("non-variable in slashvar line", <<"/">>)>>
  /\ Names(variable, num_vars) = <<A_>>

(***************************************************************************)
(* C18                                                                     *)
(***************************************************************************)

\* the index of the first token after the leading marker that is not a
\* variable, 0 if there is none
NonVariablePos(line) ==
  LET toks == LineTokens(line)
      S == {k \in 2..Len(toks) : toks[k].type # "VARIABLE"}
  IN  IF S = {} THEN 0 ELSE Min(S)

\* a directive line in which the first token after the marker that is not a
\* variable is an operator, a NOT or a parenthesis
NonVariableInDirective(line) ==
  LET toks == LineTokens(line)
  IN  /\ ShortLine(line)
      /\ toks # <<>>
      /\ toks[1].type = "SLASHVARS"
      /\ NonVariablePos(line) # 0
      /\ toks[NonVariablePos(line)].type
           \in {"OPERATOR", "NOT", "LPAREN", "RPAREN"}

\* C18: a directive line in which a token after the marker is an operator, a
\* NOT or a parenthesis fails with the Non-Variable In Order Directive error
\* naming that token and prints no table; the names before that token have
\* been registered when main jumps to cleanup, and the cleanup empties the
\* registry, so the next line starts with no registered name: after
\* / B A AND the line A AND B prints the header A B.
C18_NonVariableInDirective ==
  /\ (pc \in {"cleanup", "fgets"} /\ start.lines >= 1
        /\ NonVariableInDirective(input)) =>
       /\ LineErr = <<Diag("non-variable in slashvar line",
                           LineTokens(input)[NonVariablePos(input)].text)>>
       /\ ~TablePrinted
       /\ np = 0
       /\ pc = "cleanup" =>
            Names(variable, num_vars)
              = AppendNew(<<>>, NamesBefore(input, NonVariablePos(input)))
       /\ pc = "fgets" => (LineOut = <<Blank>> /\ FreshLineState)
  /\ (LineDone /\ start.lines = 2 /\ start.err = 1
        /\ err[1] = Diag("non-variable in slashvar line", <<"A", "N", "D">>)
        /\ input = L_A_AND_B) =>
       /\ start.vars = <<>>
       /\ LineOut = AndTable(<<A_, B_>>) \o <<Blank>>

\* A AND B has printed the header A B after the failed directive / B A AND
C18_Witness ==
  /\ LineDone
  /\ start.lines = 2
  /\ err = <<Diag("non-variable in slashvar line", <<"A", "N", "D">>)>>
  /\ input = L_A_AND_B
  /\ TableHeader = <<A_, B_>>

(***************************************************************************)
(* C19                                                                     *)
(***************************************************************************)

\* a word in upper case, and the spellings of an upper-case word in every
\* mix of cases
Upper(w) == [i \in 1..Len(w) |-> toupper(w[i])]
LowerOfUpper(c) == LowerChars[CHOOSE i \in 1..26 : UpperChars[i] = c]
CaseVariants(w) ==
  {[i \in 1..Len(w) |-> IF i \in S THEN LowerOfUpper(w[i]) ELSE w[i]] :
     S \in SUBSET (1..Len(w))}

W_NOT == <<"N", "O", "T">>
W_IMPLIES == <<"I", "M", "P", "L", "I", "E", "S">>
W_EQUIV == <<"E", "Q", "U", "I", "V">>

\* the operator words of the specification, and those of operator[]
SpecWords ==
  {<<"O","R">>, <<"A","N","D">>, <<"X","O","R">>, <<"N","A","N","D">>,
   <<"N","O","R">>, W_IMPLIES, W_EQUIV}
TableWords ==
  {<<"O","R">>, <<"A","N","D">>, <<"X","O","R">>, <<"N","A","N","D">>,
   <<"N","O","R">>, <<"I","M","P">>, <<"E","Q","U">>}

\* the id of an operator word of operator[] and of a symbol
WordId(w) ==
  CASE w = <<"O","R">> -> OP_OR
    [] w = <<"A","N","D">> -> OP_AND
    [] w = <<"X","O","R">> -> OP_XOR
    [] w = <<"N","A","N","D">> -> OP_NAND
    [] w = <<"N","O","R">> -> OP_NOR
    [] w = <<"I","M","P">> -> OP_IMP
    [] w = <<"E","Q","U">> -> OP_EQU
SymbolId(w) ==
  CASE w = <<"|">> -> OP_OR
    [] w = <<"&">> -> OP_AND
    [] w = <<"^">> -> OP_XOR
    [] w = <<"-", ">">> -> OP_IMP
    [] w = <<"=">> -> OP_EQU
Symbols == {<<"|">>, <<"&">>, <<"^">>, <<"-", ">">>, <<"=">>}

\* the one token of the line that holds only the word w
TokenOf(w) == next_token(w \o <<"\n">>, NULLPTR).tok

\* the table of A <op> B for the operator id, by the reference rule Sem
OpTable(id) ==
  <<Header(<<A_, B_>>),
    Row(<<"T", "T">>, TF(Sem(id, TRUE, TRUE))),
    Row(<<"F", "T">>, TF(Sem(id, FALSE, TRUE))),
    Row(<<"T", "F">>, TF(Sem(id, TRUE, FALSE))),
    Row(<<"F", "F">>, TF(Sem(id, FALSE, FALSE)))>>

NotTable == <<Header(<<A_>>), Row(<<"T">>, "F"), Row(<<"F">>, "T")>>

\* main holds a token of the current line
HoldsToken == pc # "fgets" /\ start.lines >= 1 /\ t # NoToken

\* C19 as stated: in any mix of cases the words OR, AND, XOR, NAND, NOR,
\* IMPLIES and EQUIV are Operator tokens, never Variable tokens, and
\* A IMPLIES B and A EQUIV B print the tables of A -> B and A = B.
C19_Original ==
  /\ (HoldsToken /\ Upper(t.text) \in SpecWords) => t.type = "OPERATOR"
  /\ (LineDone /\ start.vars = <<>> /\ input = L_A_IMPLIES_B) =>
       LineOut = OpTable(OP_IMP) \o <<Blank>>
  /\ (LineDone /\ start.vars = <<>> /\ input = L_A_EQUIV_B) =>
       LineOut = OpTable(OP_EQU) \o <<Blank>>

\* C19 amended: in any mix of cases the words OR, AND, XOR, NAND, NOR, IMP
\* and EQU are Operator tokens and the word NOT is a Not token, never
\* Variable tokens; the symbols | & ^ -> = are Operator tokens with the ids
\* of OR, AND, XOR, IMP, EQU, and ! is a Not token; A <word> B and A <symbol>
\* B print the same table, that of the operator, and NOT A and !A print the
\* same table.  The words IMPLIES and EQUIV are Variable tokens: A IMPLIES B
\* is three variables and fails with leftover values.
C19_Spellings ==
  /\ (start.lines = 0 /\ stdin = <<L_MIXED_CASE>>) =>
       /\ \A w \in TableWords : \A v \in CaseVariants(w) :
            /\ TokenOf(v) = Token("OPERATOR", v)
            /\ oper_id(v) = WordId(w)
       /\ \A v \in CaseVariants(W_NOT) : TokenOf(v) = Token("NOT", v)
       /\ \A w \in Symbols :
            /\ TokenOf(w) = Token("OPERATOR", w)
            /\ oper_id(w) = SymbolId(w)
       /\ TokenOf(<<"!">>) = Token("NOT", <<"!">>)
       /\ \A w \in {W_IMPLIES, W_EQUIV} : \A v \in CaseVariants(w) :
            TokenOf(v) = Token("VARIABLE", v)
  /\ HoldsToken =>
       /\ t.type = "OPERATOR" <=>
            (Upper(t.text) \in TableWords \/ t.text \in Symbols)
       /\ t.type = "NOT" <=> (Upper(t.text) = W_NOT \/ t.text = <<"!">>)
       /\ Upper(t.text) \in {W_IMPLIES, W_EQUIV} => t.type = "VARIABLE"
  /\ \A i \in 1..np :
       node[i].type = "OPERATOR" => node[i].id \in 0..(Len(operator) - 1)
  /\ \A id \in 0..(Len(operator) - 1) :
       (/\ LineDone
        /\ start.vars = <<>>
        /\ \/ input = OperatorLine(id)
           \/ id \in SymbolIds /\ input = SymbolLine(id)) =>
         /\ LineOut = OpTable(id) \o <<Blank>>
         /\ LineErr = <<>>
  /\ (LineDone /\ start.vars = <<>> /\ input \in {L_NOT_A, L_BANG_A}) =>
       /\ LineOut = NotTable \o <<Blank>>
       /\ LineErr = <<>>
  /\ (pc = "cleanup" /\ input \in {L_A_IMPLIES_B, L_A_EQUIV_B}) =>
       /\ np = 3
       /\ \A i \in 1..np : node[i].type = "VARIABLE"
       /\ num_vars = 3
       /\ LineErr = <<Diag("stack not empty", <<>>)>>
       /\ LineOut = <<>>

\* A -> B has printed, as the second line, the table that A IMP B has
\* printed as the first
C19_Witness ==
  /\ LineDone
  /\ start.lines = 2
  /\ start.out = 6
  /\ input = SymbolLine(OP_IMP)
  /\ SubSeq(out, 1, 5) = OpTable(OP_IMP)
  /\ LineOut = OpTable(OP_IMP) \o <<Blank>>

(***************************************************************************)
(* C20                                                                     *)
(***************************************************************************)

\* the number of values a postfix sequence leaves when it is read from node
\* i on with d values present, -1 if a node finds fewer values than it takes
RECURSIVE PostfixDepth(_, _, _)
PostfixDepth(nd, i, d) ==
  IF i > Len(nd) THEN d
  ELSE LET takes == CASE nd[i].type = "VARIABLE" -> 0
                      [] nd[i].type = "NOT" -> 1
                      [] nd[i].type = "OPERATOR" -> 2
       IN  IF d < takes THEN -1 ELSE PostfixDepth(nd, i + 1, d - takes + 1)

ValidPostfix(nd) == PostfixDepth(nd, 1, 0) = 1

\* the number of tokens of a line that become nodes
NodeTokens(line) ==
  Len(SelectSeq(LineTokens(line),
                LAMBDA tok : tok.type \in {"VARIABLE", "OPERATOR", "NOT"}))

\* C20 as stated: every node sequence handed to print_table is a valid
\* postfix program, so evaluate reports neither underflow nor leftover
\* values.
C20_Original ==
  /\ pc = "print_table" => ValidPostfix(node)
  /\ \A i \in 1..Len(err) :
       err[i].kind \notin {"stack underflow", "stack not empty"}

\* C20 amended: the node sequence handed to print_table holds one node for
\* each variable, operator and NOT token of the line and nothing else, but
\* it is a valid postfix program only if the line is a well-formed
\* expression: the parser checks parentheses, not the grammar.  evaluate at
\* assignment 0 reports underflow exactly when some node finds too few
\* values and leftover exactly when no node does and the values left are not
\* exactly one (AND underflows, A B and the empty line leave 2 and 0
\* values); a table is printed only for a valid postfix program, and every
\* chain of primaries gives one.
C20_PostfixChecked ==
  /\ pc = "print_table" =>
       /\ sp = 0
       /\ np = NodeTokens(input)
       /\ \A i \in 1..np : node[i].type \in {"VARIABLE", "OPERATOR", "NOT"}
       /\ np <= STACK_MAX =>
            /\ evaluate(node, 0) = -2 <=> PostfixDepth(node, 1, 0) = -1
            /\ evaluate(node, 0) = -3 <=> PostfixDepth(node, 1, 0) \notin {-1, 1}
            /\ evaluate(node, 0) \in {0, 1} <=> ValidPostfix(node)
       /\ IsChainLine(input) => ValidPostfix(node)
  /\ TableJustPrinted => ValidPostfix(node)
  /\ (pc = "cleanup" /\ input = L_AND) =>
       LineErr = <<Diag("stack underflow", <<>>)>>
  /\ (pc = "cleanup" /\ input \in {L_A_B, <<"\n">>}) =>
       LineErr = <<Diag("stack not empty", <<>>)>>

\* the line AND has passed the tokenizer and the parenthesis checks and its
\* one node, which is no valid postfix program, is handed to print_table
C20_Witness ==
  /\ pc = "print_table"
  /\ input = L_AND
  /\ node = <<[type |-> "OPERATOR", id |-> OP_AND]>>
  /\ ~ValidPostfix(node)
  /\ evaluate(node, 0) = -2

(***************************************************************************)
(* C22                                                                     *)
(***************************************************************************)

\* the token types that main pushes on its stack
PushedTypes == {"OPERATOR", "LPAREN", "NOT"}

\* PUSH has refused the token t of the current line
PushRefused ==
  /\ pc = "cleanup"
  /\ t # NoToken
  /\ LineErr = <<Diag("stack overflow", <<>>)>>

\* C22: the stack pointer of main stays within 0..STACK_MAX and the stack
\* holds only operators, NOTs and open parentheses.  The stack is empty
\* whenever main is at the loop head, enters print_table or has returned.  A
\* stack overflow diagnostic in the token loop is written exactly with the
\* stack full, sp = STACK_MAX, for a token that was to be pushed, and the
\* process goes on: the line of STACK_MAX + 1 open parentheses gets this one
\* diagnostic and the blank separator, nothing else.  A closing parenthesis
\* that finds no open one stops popping with the stack empty.
C22_ParserStackBounded ==
  /\ sp \in 0..STACK_MAX
  /\ \A i \in 1..sp : stack[i].type \in PushedTypes
  /\ (pc \in {"fgets", "print_table"} \/ (pc = "exit" /\ ~Died)) => sp = 0
  /\ PushRefused =>
       /\ sp = STACK_MAX
       /\ t.type \in PushedTypes
       /\ exit_status = NOT_EXITED
       /\ LineOut = <<>>
  /\ (pc = "cleanup" /\ t # NoToken /\ t.type = "RPAREN"
        /\ LineErr = <<Mismatched>>) => sp = 0
  /\ (LineDone /\ input = L_DEEP_PARENS) =>
       /\ LineErr = <<Diag("stack overflow", <<>>)>>
       /\ LineOut = <<Blank>>
       /\ exit_status = NOT_EXITED
       /\ sp = 0 /\ np = 0 /\ num_vars = 0
  /\ (pc = "token" /\ input = L_DEEP_PARENS /\ input_ptr # NULLPTR) =>
       sp = Min({input_ptr - 1, STACK_MAX})

\* the open parenthesis number STACK_MAX + 1 has been refused with the stack
\* full
C22_Witness ==
  /\ PushRefused
  /\ input = L_DEEP_PARENS
  /\ t.type = "LPAREN"
  /\ input_ptr = STACK_MAX + 2
  /\ sp = STACK_MAX

(***************************************************************************)
(* C23                                                                     *)
(***************************************************************************)

\* names looked up in every reachable registry: three names of the input
\* alphabet, the first and the last of the generated names, and the text of
\* the current token
LookedUp == {A_, B_, C_, NameNo(0), NameNo(VAR_MAX)} \cup {t.text}

\* the ids that hold a name
IdsOf(var_name) == {i \in 0..(num_vars - 1) : variable[i] = var_name}

\* the names of the VARIABLE nodes, in node order
NodeNames ==
  LET vs == SelectSeq(node, LAMBDA n : n.type = "VARIABLE")
  IN  [i \in 1..Len(vs) |-> variable[vs[i].id]]

\* C23: in every reachable state variable[i] is set exactly for
\* i < num_vars <= VAR_MAX and no two ids hold the same name.  In every
\* reachable registry var_id returns the id that holds a known name and
\* leaves the registry alone; for an unknown name, if an id is free, it
\* returns num_vars, stores the name there and changes no other entry.  Ids
\* handed out stay: when an expression line reaches print_table the ids the
\* registry held when the line was read still hold the same names, the new
\* names follow in first-seen order, and every VARIABLE node's id holds the
\* name of its token.
C23_DenseRegistry ==
  /\ num_vars \in 0..VAR_MAX
  /\ \A i \in 0..(VAR_MAX - 1) : (variable[i] # NULL) <=> (i < num_vars)
  /\ \A i, j \in 0..(num_vars - 1) : variable[i] = variable[j] => i = j
  /\ \A var_name \in LookedUp \ {<<>>} :
       LET r == var_id(variable, num_vars, var_name)
       IN  IF IdsOf(var_name) # {}
             THEN /\ IdsOf(var_name) = {r.id}
                  /\ r.variable = variable
                  /\ r.num_vars = num_vars
                  /\ ~r.die
           ELSE IF num_vars < VAR_MAX
             THEN /\ r.id = num_vars
                  /\ r.variable = [variable EXCEPT ![num_vars] = var_name]
                  /\ r.num_vars = num_vars + 1
                  /\ ~r.die
           ELSE r.die /\ r.variable = variable /\ r.num_vars = num_vars
  /\ pc = "print_table" =>
       /\ Names(variable, num_vars) = AppendNew(start.vars, VariableTexts(input))
       /\ NodeNames = VariableTexts(input)

\* an expression line that uses a name twice and a name registered by the
\* directive before it has reached print_table
C23_Witness ==
  /\ pc = "print_table"
  /\ start.vars = <<B_, A_>>
  /\ Names(variable, num_vars) = <<B_, A_, C_>>
  /\ NodeNames = <<C_, A_, C_>>

(***************************************************************************)
(* C26                                                                     *)
(***************************************************************************)

\* print_table has returned for the current line
PrintTableReturned == pc = "cleanup" /\ t = NoToken /\ sp = 0

\* the node sequence leaves no value, or more than one, and neither
\* underflows nor overflows the stack of evaluate
Leftover(nd) == PostfixDepth(nd, 1, 0) \notin {-1, 1} /\ Len(nd) <= STACK_MAX

StackNotEmpty == Diag("stack not empty", <<>>)

\* C26: whenever print_table was called with a node sequence that leaves no
\* value or more than one, it has written the stack not empty diagnostic and
\* neither header nor row.  Every line with balanced parentheses and without
\* a token that becomes a node - the empty line, a line of blanks, ( ) -
\* ends with this diagnostic and the blank separator alone, and so does the
\* line A B; the process goes on, and the line A AND B read after such a
\* line gets its table.
C26_LeftoverReported ==
  /\ (PrintTableReturned /\ Leftover(node)) =>
       /\ LineErr = <<StackNotEmpty>>
       /\ LineOut = <<>>
       /\ exit_status = NOT_EXITED
  /\ (LineDone /\ Len(LineTokens(input)) <= STACK_MAX
        /\ ParenEvent(input) = "balanced" /\ NodeTokens(input) = 0) =>
       /\ LineErr = <<StackNotEmpty>>
       /\ LineOut = <<Blank>>
  /\ (LineDone /\ input \in NodelessLines \cup {L_A_B}) =>
       /\ LineErr = <<StackNotEmpty>>
       /\ LineOut = <<Blank>>
       /\ exit_status = NOT_EXITED
  /\ (LineDone /\ start.lines = 2 /\ input = L_A_AND_B
        /\ err = <<StackNotEmpty>> /\ start.out = 1) =>
       LineOut = AndTable(<<A_, B_>>) \o <<Blank>>

\* the line ( ) has been reported as leaving no value, and A AND B is still
\* to be read
C26_Witness ==
  /\ LineDone
  /\ input = L_PARENS
  /\ LineErr = <<StackNotEmpty>>
  /\ LineOut = <<Blank>>
  /\ stdin = <<L_A_AND_B>>

(***************************************************************************)
(* evaluate, one step at a time                                            *)
(***************************************************************************)

\* the width of int, the type of the constant 1 in 1 << node[i].id, and of
\* uint64_t, the type of bits
INT_BITS == 32
UINT64_BITS == 64

\* the positions of the bits of a uint64_t
AllBits == 0..(UINT64_BITS - 1)

\* 1 << n is undefined in C for n >= INT_BITS - 1.  For n = INT_BITS - 1 the
\* builds set the sign bit; for a larger n a build either uses the low bits
\* of the shift count ("mask") or shifts the 1 out ("zero")
Builds == {"mask", "zero"}

\* the uint64_t that the int 1 << n converts to, as the set of its 1 bits:
\* a negative int is sign-extended
ShlInt(b, n) ==
  LET m == IF b = "mask" THEN n % INT_BITS ELSE n
  IN  IF m < INT_BITS - 1 THEN {m}
      ELSE IF m = INT_BITS - 1 THEN (INT_BITS - 1)..(UINT64_BITS - 1)
      ELSE {}

\* !!(bits & (1 << id))
BitIn(b, bits, id) == bool(bits \cap ShlInt(b, id) # {})

\* int sp of evaluate
ev_sp == Len(ev_stack)

\* mutant of EvFull: the test lets one more value in
EvFull_OffByOne(st) == Len(st) > STACK_MAX

\* if(sp >= STACK_MAX) return -1;
EvFull(st) == Len(st) >= STACK_MAX

\* mutant of EvShort: the value on top of the stack is tested as well
EvShort_TestsValue(st, need) ==
  Len(st) < need \/ st[Len(st)] = 0

\* if(sp <= 1) return -2; for an OPERATOR, which needs 2 values, and
\* if(sp <= 0) return -2; for a NOT, which needs 1
EvShort(st, need) == Len(st) < need

\* mutant of EnterEvaluate: the stack of the call before is still there
EnterEvaluate_KeepsStack(st) == st

\* int sp = 0; on entry
EnterEvaluate(st) == <<>>

\* return v: the first call is recorded, and so is a call with other bits
\* that returns after it
EvReturn(v) ==
  /\ ev_ret' = v
  /\ ev_pc' = "returned"
  /\ ev_first' =
       IF ev_first = <<>>
         THEN <<[bits |-> ev_bits, ret |-> v, between |-> FALSE]>>
       ELSE IF ev_bits # ev_first[1].bits
         THEN <<[ev_first[1] EXCEPT !.between = TRUE]>>
       ELSE ev_first

\* case VARIABLE
EvalVariable ==
  /\ ev_pc = "loop"
  /\ ev_i < np
  /\ node[ev_i + 1].type = "VARIABLE"
  /\ IF EvFull(ev_stack)
       THEN /\ EvReturn(-1)
            /\ ev_acc' = {}
            /\ UNCHANGED <<ev_i, ev_stack>>
       ELSE /\ ev_stack' = Append(ev_stack,
                                  BitIn(build, ev_bits, node[ev_i + 1].id))
            /\ ev_acc' = {ev_sp}
            /\ ev_i' = ev_i + 1
            /\ UNCHANGED <<ev_pc, ev_ret, ev_first>>
  /\ UNCHANGED <<build, ev_bits, vars, tvars>>

\* case OPERATOR
EvalOperator ==
  /\ ev_pc = "loop"
  /\ ev_i < np
  /\ node[ev_i + 1].type = "OPERATOR"
  /\ IF EvShort(ev_stack, 2)
       THEN /\ EvReturn(-2)
            /\ ev_acc' = {}
            /\ UNCHANGED <<ev_i, ev_stack>>
       ELSE LET o     == PopOperands(ev_stack)
                below == SubSeq(ev_stack, 1, ev_sp - 2)
            IN  IF EvFull(below)
                  THEN /\ EvReturn(-1)
                       /\ ev_stack' = below
                       /\ ev_acc' = {ev_sp - 1, ev_sp - 2}
                       /\ UNCHANGED ev_i
                  ELSE /\ ev_stack' =
                            Append(below, ApplyOper(node[ev_i + 1].id, o.a, o.b))
                       /\ ev_acc' = {ev_sp - 1, ev_sp - 2}
                       /\ ev_i' = ev_i + 1
                       /\ UNCHANGED <<ev_pc, ev_ret, ev_first>>
  /\ UNCHANGED <<build, ev_bits, vars, tvars>>

\* case NOT
EvalNot ==
  /\ ev_pc = "loop"
  /\ ev_i < np
  /\ node[ev_i + 1].type = "NOT"
  /\ IF EvShort(ev_stack, 1)
       THEN /\ EvReturn(-2)
            /\ ev_acc' = {}
            /\ UNCHANGED <<ev_i, ev_stack>>
       ELSE /\ ev_stack' = [ev_stack EXCEPT ![ev_sp] = bool(@ = 0)]
            /\ ev_acc' = {ev_sp - 1}
            /\ ev_i' = ev_i + 1
            /\ UNCHANGED <<ev_pc, ev_ret, ev_first>>
  /\ UNCHANGED <<build, ev_bits, vars, tvars>>

\* if(sp != 1) return -3; return stack[--sp];
EvalReturn ==
  /\ ev_pc = "loop"
  /\ ev_i = np
  /\ IF ev_sp # 1
       THEN /\ EvReturn(-3)
            /\ ev_acc' = {}
            /\ UNCHANGED ev_stack
       ELSE /\ EvReturn(ev_stack[ev_sp])
            /\ ev_acc' = {ev_sp - 1}
            /\ ev_stack' = SubSeq(ev_stack, 1, ev_sp - 1)
  /\ UNCHANGED <<build, ev_bits, ev_i, vars, tvars>>

\* a node of each type
Var(id) == [type |-> "VARIABLE", id |-> id]
Op(id) == [type |-> "OPERATOR", id |-> id]
Not_ == [type |-> "NOT", id |-> NOID]

\* the longest node sequence built from NodeAlphabet
MaxNodes == 3

NodeAlphabet == {Var(0), Var(1), Op(OP_AND), Not_}

\* every node sequence of up to MaxNodes nodes of NodeAlphabet; two variables
\* under each operator; one variable of each id; STACK_MAX + 1 variables;
\* and STACK_MAX variables followed by the operators that fold them
NodeSeqs ==
  UNION {[1..k -> NodeAlphabet] : k \in 0..MaxNodes}
    \cup {<<Var(0), Var(1), Op(id)>> : id \in OP_OR..OP_EQU}
    \cup {<<Var(id)>> : id \in 0..(VAR_MAX - 1)}
    \cup {[i \in 1..(STACK_MAX + 1) |-> Var(0)],
          [i \in 1..(2 * STACK_MAX - 1) |->
             IF i <= STACK_MAX THEN Var(0) ELSE Op(OP_AND)]}

\* the variable ids of a node sequence
IdsIn(nd) == {nd[i].id : i \in {j \in 1..Len(nd) : nd[j].type = "VARIABLE"}}

\* the assignments evaluate is called with: no variable or all variables
\* true for the long sequences, every assignment of the variables of a
\* short sequence, and for a single variable also all bits
\* but its own, the bit INT_BITS positions below, and the two highest bits
\* of an int and of a uint64_t
MasksOf(nd) ==
  IF Len(nd) > STACK_MAX THEN {{}, IdsIn(nd)}
  ELSE SUBSET IdsIn(nd)
         \cup (IF Len(nd) = 1
                 THEN UNION {{AllBits \ {k}, {k % INT_BITS}, {INT_BITS - 1},
                              {UINT64_BITS - 1}} : k \in IdsIn(nd)}
                 ELSE {})

\* the registry in which the ids up to k - 1 are handed out
RegistryOf(k) ==
  [i \in 0..(VAR_MAX - 1) |-> IF i < k THEN NameNo(i) ELSE NULL]

\* the number of names a node sequence needs
NamesNeeded(nd) ==
  IF IdsIn(nd) = {} THEN 0
  ELSE 1 + CHOOSE k \in IdsIn(nd) : \A j \in IdsIn(nd) : j <= k

\* print_table calls evaluate for the first time: main is in print_table
\* with some node sequence and a registry that holds its ids
EvInit ==
  /\ stdin = <<>>
  /\ input = L_EMPTY
  /\ input_ptr = NULLPTR
  /\ t = NoToken
  /\ stack = <<>>
  /\ node \in NodeSeqs
  /\ variable = RegistryOf(NamesNeeded(node))
  /\ num_vars = NamesNeeded(node)
  /\ first_token = 0
  /\ slashvar_mode = 0
  /\ pc = "print_table"
  /\ exit_status = NOT_EXITED
  /\ out = <<>>
  /\ err = <<>>
  /\ start = [lines |-> 1, vars |-> <<>>, out |-> 0, err |-> 0]
  /\ build \in Builds
  /\ ev_pc = "loop"
  /\ ev_bits \in MasksOf(node)
  /\ ev_i = 0
  /\ ev_stack = EnterEvaluate(<<>>)
  /\ ev_ret = 0
  /\ ev_acc = {}
  /\ ev_first = <<>>
  /\ tt_stdin = <<>>
  /\ TtStart

\* print_table calls evaluate again, with any assignment
EvalCall ==
  /\ ev_pc = "returned"
  /\ ev_pc' = "loop"
  /\ ev_bits' \in MasksOf(node)
  /\ ev_i' = 0
  /\ ev_stack' = EnterEvaluate(ev_stack)
  /\ ev_acc' = {}
  /\ UNCHANGED <<build, ev_ret, ev_first, vars, tvars>>

EvNext ==
  \/ EvalVariable
  \/ EvalOperator
  \/ EvalNot
  \/ EvalReturn
  \/ EvalCall

SpecEval == EvInit /\ [][EvNext]_<<vars, rest>>

(***************************************************************************)
(* C21                                                                     *)
(***************************************************************************)

\* the node evaluate is at
EvNode == node[ev_i + 1]

\* the nodes evaluate has consumed
EvDone == SubSeq(node, 1, ev_i)

\* C21: in every state of a call of evaluate, for every node sequence, sp
\* is within 0..STACK_MAX and every index of stack read or written is within
\* 0..STACK_MAX - 1.  While the loop runs sp is the number of values the
\* consumed nodes leave (computed for the sequences of up to STACK_MAX
\* nodes, and for any run of variables).  evaluate returns -1 only at a VARIABLE node with
\* sp = STACK_MAX, -2 only at an OPERATOR node with sp <= 1 or a NOT node
\* with sp = 0, -3 only after the last node with sp # 1, and a truth value
\* only after the last node, with that value the only one on the stack.
C21_EvalStackBounded ==
  /\ ev_sp \in 0..STACK_MAX
  /\ ev_acc \subseteq 0..(STACK_MAX - 1)
  /\ ev_i \in 0..np
  /\ \A k \in 1..ev_sp : ev_stack[k] \in {0, 1}
  /\ (ev_pc = "loop" /\ np <= STACK_MAX) => ev_sp = PostfixDepth(EvDone, 1, 0)
  /\ (ev_pc = "loop" /\ \A j \in 1..ev_i : node[j].type = "VARIABLE") =>
       ev_sp = ev_i
  /\ ev_pc = "returned" =>
       /\ ev_ret \in {-3, -2, -1, 0, 1}
       /\ ev_ret = -1 =>
            /\ ev_i < np
            /\ EvNode.type = "VARIABLE"
            /\ ev_sp = STACK_MAX
       /\ ev_ret = -2 =>
            /\ ev_i < np
            /\ \/ EvNode.type = "OPERATOR" /\ ev_sp <= 1
               \/ EvNode.type = "NOT" /\ ev_sp = 0
       /\ ev_ret = -3 => ev_i = np /\ ev_sp # 1
       /\ ev_ret >= 0 =>
            /\ ev_i = np
            /\ ev_sp = 0
            /\ ev_acc = {0}
            /\ np <= STACK_MAX => PostfixDepth(node, 1, 0) = 1
       /\ (ev_ret < 0 /\ ev_ret # -1 /\ np <= STACK_MAX) =>
            ev_sp = PostfixDepth(EvDone, 1, 0)

\* the push of the variable number STACK_MAX + 1 has returned the overflow
C21_Witness ==
  /\ ev_pc = "returned"
  /\ ev_ret = -1
  /\ ev_i = STACK_MAX
  /\ ev_sp = STACK_MAX
  /\ np = STACK_MAX + 1

(***************************************************************************)
(* C24                                                                     *)
(***************************************************************************)

\* the last step of evaluate has pushed the value of a variable
VariablePushed ==
  /\ ev_pc = "loop"
  /\ ev_i >= 1
  /\ node[ev_i].type = "VARIABLE"

\* C24 as stated: for every variable id below VAR_MAX and every assignment,
\* the value a VARIABLE node pushes is bit id of the assignment,
\* (bits >> id) & 1, whatever the other bits are.
C24_Original ==
  VariablePushed =>
    ev_stack[ev_sp] = bool(node[ev_i].id \in ev_bits)

\* what holds of the code: the value pushed is bit id of the assignment for
\* the ids for which the int 1 << id is defined, id <= INT_BITS - 2; for
\* id = INT_BITS - 1 it is 1 exactly if one of the bits from that position
\* up is set
C24_DefinedShifts ==
  VariablePushed =>
    LET id == node[ev_i].id
    IN  /\ id < INT_BITS - 1 => ev_stack[ev_sp] = bool(id \in ev_bits)
        /\ id = INT_BITS - 1 =>
             ev_stack[ev_sp] = bool(\E k \in ev_bits : k >= INT_BITS - 1)

\* the variable with id INT_BITS was pushed as true under an assignment in
\* which it is false and only the variable with id 0 is true
C24_WrongBit ==
  /\ VariablePushed
  /\ node[ev_i].id = INT_BITS
  /\ ev_bits = {0}
  /\ ev_stack[ev_sp] = 1

(***************************************************************************)
(* C25                                                                     *)
(***************************************************************************)

\* a call with the bits of the first call has returned
SameBitsReturned ==
  /\ ev_pc = "returned"
  /\ ev_first # <<>>
  /\ ev_bits = ev_first[1].bits

\* C25: no step of evaluate changes the node sequence, np, the variable
\* registry, num_vars or the tokenizer cursor, and every call that is made
\* with the bits of the first call returns what the first call returned,
\* whichever calls with other bits were made in between.
C25_NoSideEffects ==
  [][/\ UNCHANGED <<node, variable, num_vars, input_ptr>>
     /\ SameBitsReturned' => ev_ret' = ev_first'[1].ret]_<<vars, rest>>

\* a call with the bits of the first call has returned the same truth value
\* after a call with other bits
C25_Witness ==
  /\ SameBitsReturned
  /\ ev_first[1].between
  /\ ev_ret = ev_first[1].ret
  /\ ev_ret >= 0
  /\ np = 3

(***************************************************************************)
(* C30                                                                     *)
(***************************************************************************)

\* the assignment in which no variable is true: the 0 of evaluate(0)
Probe == {}

\* the int whose 1 bits are at the positions of bits
RECURSIVE MaskInt(_)
MaskInt(bits) ==
  IF bits = {} THEN 0
  ELSE LET k == CHOOSE j \in bits : TRUE
       IN  Shl1(k) + MaskInt(bits \ {k})

\* C30: whether a call of evaluate fails, and with which code, is the same
\* for every assignment: every call on a node sequence returns a truth
\* value if the first call did, and the code of the first call if that
\* failed.  For the node sequences of up to STACK_MAX nodes with ids below
\* INT_BITS - 1 this outcome is the one of evaluate(0), the probe of
\* print_table, and for bits below INT_BITS - 1 the value returned is the
\* one print_table prints.
C30_FailureIndependent ==
  (ev_pc = "returned" /\ ev_first # <<>>) =>
    /\ (ev_ret < 0 \/ ev_first[1].ret < 0) => ev_ret = ev_first[1].ret
    /\ (np <= STACK_MAX /\ IdsIn(node) \subseteq 0..(INT_BITS - 2)) =>
         LET probe == evaluate(node, 0)
         IN  /\ (ev_ret < 0 \/ probe < 0) => ev_ret = probe
             /\ ev_bits \subseteq 0..(INT_BITS - 2) =>
                  ev_ret = evaluate(node, MaskInt(ev_bits))

\* a call with some variable true has failed with the code of the first call,
\* which was made with another assignment
C30_Witness ==
  /\ ev_pc = "returned"
  /\ ev_first # <<>>
  /\ ev_first[1].bits # ev_bits
  /\ ev_bits # Probe
  /\ ev_ret = -2
  /\ ev_first[1].ret = -2

(***************************************************************************)
(* The tree-building program (src/ttgen.c): tokenizer and tree             *)
(***************************************************************************)

\* #define BRACKETS "()"
BRACKETS == {"(", ")"}

\* static char *operator[] of ttgen.c, without EQU
tt_operator ==
  << <<"O","R">>, <<"A","N","D">>, <<"X","O","R">>, <<"N","A","N","D">>,
     <<"N","O","R">>, <<"I","M","P">> >>

\* oper_id of ttgen.c
tt_oper_id(oper_name) ==
  LET S == {i \in 1..Len(tt_operator) : strcasecmp0(oper_name, tt_operator[i])}
  IN  IF S = {} THEN -1 ELSE Min(S) - 1

\* strcspn(s + p, reject): the length of the longest run of characters that
\* starts at index p and holds no rejected character
RECURSIVE strcspn(_, _, _)
strcspn(s, p, reject) ==
  IF p <= Len(s) /\ s[p] \notin reject THEN 1 + strcspn(s, p + 1, reject)
  ELSE 0

\* next_token of ttgen.c: a bracket, or the word up to the next blank or
\* bracket, which is NOT, an operator or else a variable
tt_next_token(s, ptr) ==
  LET p0 == IF ptr = NULLPTR THEN 1 ELSE ptr
      p  == p0 + strspn(s, p0, WHITESPACE)
  IN  IF p > Len(s) THEN [tok |-> NoToken, ptr |-> NULLPTR]
      ELSE IF s[p] \in BRACKETS
        THEN [tok |-> Token("BRACKET", <<s[p]>>), ptr |-> p + 1]
      ELSE LET len  == strcspn(s, p, WHITESPACE \cup BRACKETS)
               text == SubSeq(s, p, p + len - 1)
           IN  [tok |-> Token(IF strcasecmp0(text, <<"N","O","T">>) THEN "NOT"
                              ELSE IF tt_oper_id(text) >= 0 THEN "OPERATOR"
                              ELSE "VARIABLE",
                              text),
                ptr |-> p + len]

\* make_node: a zero-filled Node; type 0 is UNKNOWN and id 0 is OP_OR
ZeroNode ==
  [type |-> "UNKNOWN", not |-> 0, id |-> 0, parent |-> NULLPTR,
   left |-> NULLPTR, right |-> NULLPTR]

\* the address of the node main makes for a line
ROOT == 1

\* tree = make_node(); tree->parent = tree;
RootOnly == <<[ZeroNode EXCEPT !.parent = ROOT]>>

\* branch(n): two new nodes become the children of n
branch(h, n) ==
  LET a == Len(h) + 1
  IN  [h \o <<[ZeroNode EXCEPT !.parent = n], [ZeroNode EXCEPT !.parent = n]>>
         EXCEPT ![n].left = a, ![n].right = a + 1]

\* the result of evaluate for which the behaviour is undefined: a NULL
\* child is followed, or r is returned unassigned
UNDEFINED == -1

\* mutant of tt_ApplyOper: OP_IMP is computed as a || !b
tt_ApplyOper_ImpSwapped(id, a, b) ==
  CASE id = OP_OR   -> bool(a # 0 \/ b # 0)
    [] id = OP_AND  -> bool(a # 0 /\ b # 0)
    [] id = OP_XOR  -> bool(a # b)
    [] id = OP_NAND -> bool(~(a # 0 /\ b # 0))
    [] id = OP_NOR  -> bool(~(a # 0 \/ b # 0))
    [] id = OP_IMP  -> bool(a # 0 \/ b = 0)
    [] OTHER        -> UNDEFINED

\* the switch on tree->id of evaluate; r stays unassigned for any other id
tt_ApplyOper(id, a, b) ==
  CASE id = OP_OR   -> bool(a # 0 \/ b # 0)
    [] id = OP_AND  -> bool(a # 0 /\ b # 0)
    [] id = OP_XOR  -> bool(a # b)
    [] id = OP_NAND -> bool(~(a # 0 /\ b # 0))
    [] id = OP_NOR  -> bool(~(a # 0 \/ b # 0))
    [] id = OP_IMP  -> bool(b # 0 \/ a = 0)
    [] OTHER        -> UNDEFINED

\* r ^ tree->not
Xor1(r, flag) == IF flag = 0 THEN r ELSE 1 - r

\* evaluate(tree, bits) of ttgen.c for the node at address n of the heap h
RECURSIVE tt_evaluate(_, _, _)
tt_evaluate(h, n, bits) ==
  IF n = NULLPTR THEN UNDEFINED
  ELSE IF h[n].type = "VARIABLE" THEN Xor1(BitOf(bits, h[n].id), h[n].not)
  ELSE LET a == tt_evaluate(h, h[n].left, bits)
           b == tt_evaluate(h, h[n].right, bits)
       IN  IF a = UNDEFINED \/ b = UNDEFINED THEN UNDEFINED
           ELSE LET r == tt_ApplyOper(h[n].id, a, b)
                IN  IF r = UNDEFINED THEN UNDEFINED ELSE Xor1(r, h[n].not)

\* the body of the row loop of print_table for the assignment i: the
\* columns and the result are printed as digits
tt_TableRow(h, n, nv, i) ==
  Row([b \in 1..nv |-> BitOf(i, b - 1)], tt_evaluate(h, n, i))

\* for(i = (1 << num_vars) - 1; i != -1; i--): the rows from i on
RECURSIVE tt_TableRows(_, _, _, _)
tt_TableRows(h, n, nv, i) ==
  IF i = -1 THEN <<>>
  ELSE <<tt_TableRow(h, n, nv, i)>> \o tt_TableRows(h, n, nv, NextRow(i))

(***************************************************************************)
(* The tree-building program: main                                         *)
(***************************************************************************)

\* what the current line has written so far
tt_LineOut == SubSeq(tt_out, tt_start.out + 1, Len(tt_out))
tt_LineErr == SubSeq(tt_err, tt_start.err + 1, Len(tt_err))

\* the result of the next_token call of the loop head
tt_Next_t == tt_next_token(tt_input, tt_input_ptr)

\* a diagnostic and goto cleanup
TtError(kind, arg) ==
  /\ tt_err' = Append(tt_err, Diag(kind, arg))
  /\ tt_pc' = "cleanup"
  /\ UNCHANGED <<expect, tree, heap, tt_variable, tt_num_vars>>

\* a NULL pointer is dereferenced: from here on the behaviour is undefined
TtUndefined ==
  /\ tt_pc' = "undefined"
  /\ UNCHANGED <<expect, tree, heap, tt_variable, tt_num_vars, tt_err>>

\* while(fgets(input, 1024, stdin)) { tree = make_node(); tree->parent = tree;
TtFgets ==
  /\ tt_pc = "fgets"
  /\ tt_stdin # <<>>
  /\ tt_input' = Head(tt_stdin)
  /\ tt_stdin' = Tail(tt_stdin)
  /\ heap' = RootOnly
  /\ tree' = ROOT
  /\ tt_pc' = "token"
  /\ tt_start' = [lines |-> tt_start.lines + 1, out |-> Len(tt_out),
                  err |-> Len(tt_err), expect |-> expect]
  /\ UNCHANGED <<tt_input_ptr, tt_t, tt_variable, tt_num_vars, expect, tt_out,
                 tt_err>>
  /\ UNCHANGED <<vars, evars>>

\* fgets returns NULL at end of input: return 0
TtEndOfInput ==
  /\ tt_pc = "fgets"
  /\ tt_stdin = <<>>
  /\ tt_pc' = "exit"
  /\ UNCHANGED <<tt_stdin, tt_input, tt_input_ptr, tt_t, tt_variable,
                 tt_num_vars, expect, tree, heap, tt_out, tt_err, tt_start>>
  /\ UNCHANGED <<vars, evars>>

\* case BRACKET, '(': branch and descend left
TtOpenParen ==
  /\ tt_pc = "token"
  /\ tt_Next_t.tok = Token("BRACKET", <<"(">>)
  /\ tt_t' = tt_Next_t.tok
  /\ tt_input_ptr' = tt_Next_t.ptr
  /\ IF expect # "EXPR" THEN TtError("not expecting expression", <<"(">>)
     ELSE IF tree = NULLPTR THEN TtUndefined
     ELSE /\ heap' = branch(heap, tree)
          /\ tree' = Len(heap) + 1
          /\ expect' = "EXPR"
          /\ UNCHANGED <<tt_variable, tt_num_vars, tt_err, tt_pc>>
  /\ UNCHANGED <<tt_stdin, tt_input, tt_out, tt_start>>
  /\ UNCHANGED <<vars, evars>>

\* case BRACKET, ')': ascend
TtCloseParen ==
  /\ tt_pc = "token"
  /\ tt_Next_t.tok = Token("BRACKET", <<")">>)
  /\ tt_t' = tt_Next_t.tok
  /\ tt_input_ptr' = tt_Next_t.ptr
  /\ IF tree = NULLPTR THEN TtUndefined
     ELSE /\ tree' = heap[tree].parent
          /\ expect' = "OPER"
          /\ UNCHANGED <<heap, tt_variable, tt_num_vars, tt_err, tt_pc>>
  /\ UNCHANGED <<tt_stdin, tt_input, tt_out, tt_start>>
  /\ UNCHANGED <<vars, evars>>

\* case VARIABLE: store the variable and ascend
TtVariable ==
  /\ tt_pc = "token"
  /\ tt_Next_t.tok.type = "VARIABLE"
  /\ tt_t' = tt_Next_t.tok
  /\ tt_input_ptr' = tt_Next_t.ptr
  /\ IF expect # "EXPR"
       THEN TtError("not expecting expression", tt_Next_t.tok.text)
     ELSE IF tree = NULLPTR THEN TtUndefined
     ELSE LET r == var_id(tt_variable, tt_num_vars, tt_Next_t.tok.text)
          IN  IF r.die
                THEN /\ tt_err' = Append(tt_err, Diag("maximum of variables", <<>>))
                     /\ tt_pc' = "died"
                     /\ heap' = [heap EXCEPT ![tree].type = "VARIABLE"]
                     /\ UNCHANGED <<tree, expect, tt_variable, tt_num_vars>>
                ELSE /\ heap' = [heap EXCEPT ![tree].type = "VARIABLE",
                                             ![tree].id = r.id]
                     /\ tt_variable' = r.variable
                     /\ tt_num_vars' = r.num_vars
                     /\ tree' = heap[tree].parent
                     /\ expect' = "OPER"
                     /\ UNCHANGED <<tt_err, tt_pc>>
  /\ UNCHANGED <<tt_stdin, tt_input, tt_out, tt_start>>
  /\ UNCHANGED <<vars, evars>>

\* case OPERATOR: store the operator and descend right
TtOperator ==
  /\ tt_pc = "token"
  /\ tt_Next_t.tok.type = "OPERATOR"
  /\ tt_t' = tt_Next_t.tok
  /\ tt_input_ptr' = tt_Next_t.ptr
  /\ IF expect # "OPER"
       THEN TtError("not expecting operator", tt_Next_t.tok.text)
     ELSE IF tree = NULLPTR THEN TtUndefined
     ELSE /\ heap' = [heap EXCEPT ![tree].type = "OPERATOR",
                                  ![tree].id = tt_oper_id(tt_Next_t.tok.text)]
          /\ tree' = heap[tree].right
          /\ expect' = "EXPR"
          /\ UNCHANGED <<tt_variable, tt_num_vars, tt_err, tt_pc>>
  /\ UNCHANGED <<tt_stdin, tt_input, tt_out, tt_start>>
  /\ UNCHANGED <<vars, evars>>

\* case NOT: toggle the negation flag
TtNot ==
  /\ tt_pc = "token"
  /\ tt_Next_t.tok.type = "NOT"
  /\ tt_t' = tt_Next_t.tok
  /\ tt_input_ptr' = tt_Next_t.ptr
  /\ IF expect # "EXPR"
       THEN TtError("not expecting expression", tt_Next_t.tok.text)
     ELSE IF tree = NULLPTR THEN TtUndefined
     ELSE /\ heap' = [heap EXCEPT ![tree].not = 1 - @]
          /\ UNCHANGED <<tree, expect, tt_variable, tt_num_vars, tt_err, tt_pc>>
  /\ UNCHANGED <<tt_stdin, tt_input, tt_out, tt_start>>
  /\ UNCHANGED <<vars, evars>>

\* next_token returns NULL: the loop ends
TtLineEnd ==
  /\ tt_pc = "token"
  /\ tt_Next_t.tok = NoToken
  /\ tt_t' = NoToken
  /\ tt_input_ptr' = tt_Next_t.ptr
  /\ tt_pc' = "print_table"
  /\ UNCHANGED <<tt_stdin, tt_input, tt_variable, tt_num_vars, expect, tree,
                 heap, tt_out, tt_err, tt_start>>
  /\ UNCHANGED <<vars, evars>>

\* print_table(tree): the header, then a row for each assignment; evaluate
\* follows the same pointers for every assignment
TtPrintTable ==
  /\ tt_pc = "print_table"
  /\ IF tt_evaluate(heap, tree, 0) = UNDEFINED
       THEN /\ tt_pc' = "undefined"
            /\ UNCHANGED tt_out
       ELSE /\ tt_out' = tt_out \o <<Header(Names(tt_variable, tt_num_vars))>>
                           \o tt_TableRows(heap, tree, tt_num_vars,
                                           FirstRow(tt_num_vars))
            /\ tt_pc' = "cleanup"
  /\ UNCHANGED <<tt_stdin, tt_input, tt_input_ptr, tt_t, tt_variable,
                 tt_num_vars, expect, tree, heap, tt_err, tt_start>>
  /\ UNCHANGED <<vars, evars>>

\* cleanup: reset_tokstr(); free_expr(tree); printf("\n");  free_expr reads
\* tree->child, and expect is left as it is
TtCleanup ==
  /\ tt_pc = "cleanup"
  /\ tt_input_ptr' = NULLPTR
  /\ tt_variable' = clear_vars(tt_variable, tt_num_vars).variable
  /\ tt_num_vars' = clear_vars(tt_variable, tt_num_vars).num_vars
  /\ IF tree = NULLPTR
       THEN /\ tt_pc' = "undefined"
            /\ UNCHANGED <<tree, heap, tt_out>>
       ELSE /\ heap' = <<>>
            /\ tree' = NULLPTR
            /\ tt_out' = Append(tt_out, Blank)
            /\ tt_pc' = "fgets"
  /\ UNCHANGED <<tt_stdin, tt_input, tt_t, expect, tt_err, tt_start>>
  /\ UNCHANGED <<vars, evars>>

TtNext ==
  \/ TtFgets
  \/ TtEndOfInput
  \/ TtOpenParen
  \/ TtCloseParen
  \/ TtVariable
  \/ TtOperator
  \/ TtNot
  \/ TtLineEnd
  \/ TtPrintTable
  \/ TtCleanup


(***************************************************************************)
(* The tree-building program: inputs and specification                     *)
(***************************************************************************)

\* the longest generated line of the tree-building program
MaxTreeToks == 3

\* the lexemes of its generated lines
TreeAlphabet ==
  { <<"A">>, <<"B">>, <<"A","N","D">>, <<"N","O","T">>, <<"(">>, <<")">> }

\* every line of at most n lexemes of TreeAlphabet
TreeLinesUpTo(n) ==
  {Join(f) : f \in UNION {[1..k -> TreeAlphabet] : k \in 0..n}}

\* A alone, (A AND B) and ((A AND B) OR C) without blanks at the brackets,
\* A AND B without brackets, and (A AND (B OR C with brackets left open
L_A == <<"A", "\n">>
L_PAREN_A_AND_B == <<"(","A"," ","A","N","D"," ","B",")","\n">>
L_PAREN_A_AND_B_OR_C ==
  <<"(","(","A"," ","A","N","D"," ","B",")"," ","O","R"," ","C",")","\n">>
L_A_AND_B_OR_C_OPEN ==
  <<"(","A"," ","A","N","D"," ","(","B"," ","O","R"," ","C","\n">>
L_REDUNDANT_PARENS == <<"(","(","A",")",")","\n">>

\* the lines that are read first
TreeFirstLines ==
  {L_A, L_PAREN_A_AND_B, L_AND, L_A_B, L_A_AND_B}

TreeExamples ==
  {L_PAREN_A_AND_B_OR_C, L_A_AND_B_OR_C_OPEN, L_REDUNDANT_PARENS, L_EMPTY,
   L_BLANKS, L_PARENS, L_A_AND_B, L_PAREN_A_AND_B}

\* the inputs: one generated line or one example, or a generated line after
\* a first line
TreeFiles ==
  {<<l>> : l \in TreeLinesUpTo(MaxTreeToks) \cup TreeExamples}
    \cup {<<f, l>> : f \in TreeFirstLines,
                     l \in TreeLinesUpTo(MaxTreeToks - 1) \cup TreeExamples}

\* the tree-building program alone: the shunting-yard program has no input
TtInit ==
  /\ stdin = <<>>
  /\ MainStart
  /\ NoCall
  /\ tt_stdin \in TreeFiles
  /\ TtStart

SpecTree == TtInit /\ [][TtNext]_<<vars, rest>>


(***************************************************************************)
(* C27: the lines of the tree-building program are independent             *)
(***************************************************************************)

\* a line of the tree-building program has just been read
tt_LineStart == tt_pc = "token" /\ tt_input_ptr = NULLPTR

\* the line has been dealt with: its table or its diagnostic is written
tt_LineDone == tt_pc = "cleanup"

\* the table of the line A: the header A, then the rows 1 1 and 0 0
TableOfA == <<Header(<<A_>>), Row(<<1>>, 1), Row(<<0>>, 0)>>

\* C27: whatever the earlier lines held, a line starts with expect = EXPR,
\* the cursor at the root and an empty variable registry, and the line A is
\* accepted with the table it has as the first line
C27_Original ==
  /\ tt_LineStart =>
       /\ expect = "EXPR"
       /\ tree = ROOT
       /\ tt_num_vars = 0
  /\ (tt_LineDone /\ tt_input = L_A) =>
       /\ tt_LineErr = <<>>
       /\ tt_LineOut = TableOfA

\* what does hold: the cursor and the registry are reset for every line,
\* expect is what the line before left, and A as the first line has its table
C27_CursorAndRegistryReset ==
  /\ tt_LineStart =>
       /\ tree = ROOT
       /\ heap = RootOnly
       /\ tt_num_vars = 0
       /\ expect = tt_start.expect
  /\ (tt_LineDone /\ tt_input = L_A /\ tt_start.lines = 1) =>
       /\ tt_LineErr = <<>>
       /\ tt_LineOut = TableOfA

\* the line A after the line A is refused: expect is still OPER
C27_SecondLineRefused ==
  /\ tt_LineDone
  /\ tt_start.lines = 2
  /\ tt_input = L_A
  /\ tt_start.expect = "OPER"
  /\ tt_LineErr = <<Diag("not expecting expression", A_)>>
  /\ tt_LineOut = <<>>
  /\ SubSeq(tt_out, 1, tt_start.out) = TableOfA \o <<Blank>>


(***************************************************************************)
(* C28: the tree that reaches print_table                                  *)
(***************************************************************************)

\* every node below n that is not a variable has two children that are not
\* NULL, and every variable has one of the nv registered ids
RECURSIVE WellFormed(_, _, _)
WellFormed(h, n, nv) ==
  /\ n # NULLPTR
  /\ IF h[n].type = "VARIABLE" THEN h[n].id \in 0..(nv - 1)
     ELSE /\ WellFormed(h, h[n].left, nv)
          /\ WellFormed(h, h[n].right, nv)

\* the token loop has ended without a diagnostic
AtPrintTable == tt_pc = "print_table"

\* C28: when a line reaches print_table the cursor is the root, the tree is
\* well formed and evaluate follows no NULL child
C28_Original ==
  AtPrintTable =>
    /\ tree = ROOT
    /\ WellFormed(heap, tree, tt_num_vars)
    /\ tt_evaluate(heap, tree, 0) # UNDEFINED

\* what does hold: the cursor is NULL or a node of the heap, and evaluate is
\* defined exactly for the well-formed trees
C28_DefinedIffWellFormed ==
  AtPrintTable =>
    /\ tree \in 0..Len(heap)
    /\ tt_evaluate(heap, tree, 0) # UNDEFINED
         <=> WellFormed(heap, tree, tt_num_vars)

\* the empty line reaches print_table with the root alone, and evaluate has
\* read the type of its NULL left child
C28_NullChildFollowed ==
  /\ tt_pc = "undefined"
  /\ tt_input = L_EMPTY
  /\ tt_t = NoToken
  /\ tt_LineErr = <<>>
  /\ tree = ROOT
  /\ heap = RootOnly
  /\ heap[ROOT].left = NULLPTR


(***************************************************************************)
(* Both programs on the same input                                         *)
(***************************************************************************)

\* the most operators, NOT included, of a generated bracketed expression
MaxOps == 2

\* the variables and the operator words of the generated expressions
GenVars == {A_, B_}
GenOps == {tt_operator[OP_AND + 1], tt_operator[OP_IMP + 1]}

\* expr = VARIABLE | NOT expr | ( expr operator expr ), as lexemes: the
\* expressions with exactly n operators
RECURSIVE ExprsOfSize(_)
ExprsOfSize(n) ==
  IF n = 0 THEN {<<v>> : v \in GenVars}
  ELSE {<<W_NOT>> \o e : e \in ExprsOfSize(n - 1)}
         \cup UNION {{<< <<"(">> >> \o e \o <<op>> \o f \o << <<")">> >> :
                        e \in ExprsOfSize(k), f \in ExprsOfSize(n - 1 - k),
                        op \in GenOps} : k \in 0..(n - 1)}

\* ( A op B ), NOT ( A op B ) and ( ( A op B ) op C ) for each operator of
\* the tree-building program, and two expressions without blanks
OperExprs ==
  UNION {{ << <<"(">>, A_, tt_operator[i], B_, <<")">> >>,
           << W_NOT, <<"(">>, A_, tt_operator[i], B_, <<")">> >>,
           << <<"(">>, <<"(">>, A_, tt_operator[i], B_, <<")">>,
              tt_operator[i], C_, <<")">> >> } : i \in 1..Len(tt_operator)}

\* the fully bracketed expression lines
ParenLines ==
  {Join(e) : e \in UNION {ExprsOfSize(n) : n \in 0..MaxOps} \cup OperExprs}
    \cup {L_PAREN_A_AND_B, L_PAREN_A_AND_B_OR_C}

\* inputs that are not bracketed expressions
OtherFiles ==
  {<<L_SLASH_B_A, L_A_AND_B>>, <<L_A_DOLLAR_B>>, <<L_A_SLASH_B>>,
   <<L_SLASH_A_SLASH_B>>, <<L_A_AND_B_OR_C_OPEN>>}

BothFiles == {<<l>> : l \in ParenLines} \cup OtherFiles

\* the two programs are started on the same standard input
BothInit ==
  /\ stdin \in BothFiles
  /\ MainStart
  /\ NoCall
  /\ tt_stdin = stdin
  /\ TtStart

\* a step of either program
BothNext ==
  \/ Next
  \/ TtNext

SpecBoth == BothInit /\ [][BothNext]_<<vars, rest>>

(***************************************************************************)
(* C29: the tree evaluator and the postfix evaluator agree                 *)
(***************************************************************************)

\* both programs have parsed the same fully bracketed expression line
BothParsed ==
  /\ pc = "print_table"
  /\ tt_pc = "print_table"
  /\ input \in ParenLines
  /\ tt_input = input

\* both programs have ended after one fully bracketed expression line
BothExited ==
  /\ pc = "exit"
  /\ tt_pc = "exit"
  /\ input \in ParenLines
  /\ tt_input = input

\* a row of the shunting-yard program with 1 for T and 0 for F
Digit(c) == IF c = "T" THEN 1 ELSE 0
AsDigits(l) ==
  IF l.kind = "row"
    THEN Row([k \in 1..Len(l.cols) |-> Digit(l.cols[k])], Digit(l.res))
    ELSE l

\* C29: for a fully bracketed expression line both programs register the
\* same variables with the same ids, both evaluators are defined and return
\* the same value for every assignment, and both print the same table
C29_EvaluatorsAgree ==
  /\ BothParsed =>
       /\ tt_num_vars = num_vars
       /\ Names(tt_variable, tt_num_vars) = Names(variable, num_vars)
       /\ tree = ROOT
       /\ \A bits \in 0..FirstRow(num_vars) :
            /\ evaluate(node, bits) \in {0, 1}
            /\ tt_evaluate(heap, tree, bits) = evaluate(node, bits)
  /\ BothExited =>
       /\ err = <<>>
       /\ tt_err = <<>>
       /\ Len(out) = Len(tt_out)
       /\ \A k \in 1..Len(out) : tt_out[k] = AsDigits(out[k])

\* both programs have parsed ( ( A IMP B ) IMP C ), which is false when all
\* three are false and true when A alone is true
C29_Witness ==
  /\ BothParsed
  /\ input = Join(<< <<"(">>, <<"(">>, A_, tt_operator[OP_IMP + 1], B_, <<")">>,
                     tt_operator[OP_IMP + 1], C_, <<")">> >>)
  /\ num_vars = 3
  /\ tt_evaluate(heap, tree, 0) = 0
  /\ evaluate(node, 0) = 0
  /\ tt_evaluate(heap, tree, 1) = 1


(***************************************************************************)
(* C31: the state at the start of a line                                   *)
(***************************************************************************)

\* fgets has read a line and next_token has not been called for it yet
LineStart == pc = "token" /\ first_token = 1

\* C31: when the processing of a line starts the parser stack and the node
\* sequence are empty and the tokenizer cursor is reset; and the registry
\* holds a name when the next line is read only if the line before it is a
\* well-formed directive that was processed without a diagnostic and without
\* output, every other line having emptied the registry.  The first line
\* starts with an empty registry.
C31_LineStartState ==
  /\ LineStart =>
       /\ sp = 0
       /\ np = 0
       /\ input_ptr = NULLPTR
       /\ slashvar_mode = 0
       /\ start.vars = Names(variable, num_vars)
       /\ start.lines = 1 => num_vars = 0
  /\ (LineDone /\ num_vars > 0) =>
       /\ IsDirective(input)
       /\ LineErr = <<>>
       /\ LineOut = <<>>
  /\ (LineDone /\ (~IsDirective(input) \/ LineErr # <<>>)) =>
       /\ num_vars = 0
       /\ variable = NoVariables

\* the third line starts with an empty registry, stack and node sequence:
\* the directive / B A was the first line and the second line, A B, failed
C31_Witness ==
  /\ LineStart
  /\ start.lines = 3
  /\ start.err = 1
  /\ err[1] = Diag("stack not empty", <<>>)
  /\ input = L_A_AND_B
  /\ start.vars = <<>>
  /\ num_vars = 0
  /\ sp = 0
  /\ np = 0


(***************************************************************************)
(* C32: operands and operators out of turn                                 *)
(***************************************************************************)

\* the line has no unknown token and no marker, its parentheses match and
\* its tokens fit the parser stack
ParsableLine(line) ==
  /\ ParenEvent(line) = "balanced"
  /\ Len(LineTokens(line)) <= STACK_MAX

\* C32: the parser checks no alternation of operands and operators.  When
\* main reaches cleanup for a line with matching parentheses whose nodes are
\* a valid postfix program, the line has no diagnostic and its table is
\* printed, whatever the order of its tokens was; the only diagnostics of a
\* line with matching parentheses are those of evaluate.  A B AND and
\* A (B AND) print the table of A AND B, and A NOT prints the table of NOT A.
C32_NoAlternationCheck ==
  /\ (pc = "cleanup" /\ ParsableLine(input)) =>
       /\ np = NodeTokens(input)
       /\ ValidPostfix(node) => (LineErr = <<>> /\ TablePrinted)
       /\ \A i \in 1..Len(LineErr) :
            LineErr[i].kind \in {"stack underflow", "stack not empty"}
  /\ (LineDone /\ start.vars = <<>> /\ input \in {L_A_B_AND, L_A_PAREN_B_AND}) =>
       /\ LineOut = AndTable(<<A_, B_>>) \o <<Blank>>
       /\ LineErr = <<>>
  /\ (LineDone /\ start.vars = <<>> /\ input = L_A_NOT) =>
       /\ LineOut = NotTable \o <<Blank>>
       /\ LineErr = <<>>

\* A (B AND) has printed the table of A AND B
C32_Witness ==
  /\ LineDone
  /\ start.lines = 1
  /\ input = L_A_PAREN_B_AND
  /\ LineErr = <<>>
  /\ LineOut = AndTable(<<A_, B_>>) \o <<Blank>>


(***************************************************************************)
(* C33: termination                                                        *)
(***************************************************************************)

\* the longest line, in characters, of the inputs of several lines below
MaxFairChars == 14

\* the inputs of the runs to the end: every generated token line alone, the
\* inputs of ScenarioFiles whose lines have up to MaxFairChars characters,
\* and the line that overflows the stack followed by another line
FairFiles ==
  {<<l>> : l \in TokLines}
    \cup {f \in ScenarioFiles : \A i \in 1..Len(f) : Len(f[i]) <= MaxFairChars}
    \cup {<<L_DEEP_PARENS, L_A_AND_B>>}

FairInit ==
  /\ stdin \in FairFiles
  /\ MainStart
  /\ NoCall
  /\ tt_stdin = <<>>
  /\ TtStart

\* the program is sequential and runs on: a step that can be taken is taken
SpecFair == FairInit /\ [][Next]_<<vars, rest>> /\ WF_<<vars, rest>>(Next)

\* static char input[1024]: fgets stores at most INPUT_SIZE - 1 characters
INPUT_SIZE == 1024

\* where next_token starts to read: if(!input_ptr) input_ptr = input
CursorPos == IF input_ptr = NULLPTR THEN 1 ELSE input_ptr

\* the characters from the cursor to the end of the line
Remaining == Len(input) + 1 - CursorPos

\* a step of the token loop, which is one call of next_token: at the end of
\* the line no token is returned and the cursor is reset; an UNKNOWN token
\* leaves the cursor at the character that starts it and the line is given
\* up; any other token ends after the old cursor and the cursor is moved
\* behind it, at least one character on
TokenProgress ==
  pc = "token" =>
    \/ /\ t' = NoToken
       /\ input_ptr' = NULLPTR
       /\ strspn(input, CursorPos, WHITESPACE) = Remaining
       /\ pc' \in {"drain", "fgets"}
    \/ /\ t'.type = "UNKNOWN"
       /\ input_ptr' = CursorPos + strspn(input, CursorPos, WHITESPACE)
       /\ input_ptr' <= Len(input)
       /\ pc' = "cleanup"
    \/ /\ t'.type \in TokenTypes \ {"UNKNOWN"}
       /\ Len(t'.text) >= 1
       /\ input_ptr' - Len(t'.text) >= CursorPos
       /\ input_ptr' > CursorPos
       /\ input_ptr' <= Len(input) + 1
       /\ pc' \in {"token", "cleanup", "exit"}

\* the pop loops take tokens off the parser stack: only a push adds one, and
\* a right parenthesis, the drain and the cleanup leave fewer than before
\* unless the stack is empty
PopProgress ==
  /\ Len(stack') <= sp + 1
  /\ (pc = "token" /\ t'.type = "RPAREN" /\ sp > 0) => Len(stack') < sp
  /\ pc = "drain" => Len(stack') <= sp
  /\ pc = "cleanup" => Len(stack') = 0

\* a bound on the steps main still takes: the lines to read, then the place
\* in the loop body, then the characters left on the line
Measure ==
  Len(stdin) * (INPUT_SIZE + 5)
    + CASE pc = "exit"        -> 0
        [] pc = "fgets"       -> 1
        [] pc = "cleanup"     -> 2
        [] pc = "print_table" -> 3
        [] pc = "drain"       -> 4
        [] pc = "token"       -> 5 + Remaining

\* main has returned or exit has been called
Exited == pc = "exit"

\* C33: every call of next_token moves the cursor on, gives up the line or
\* ends it, no pop loop adds to the stack, every step of main lowers the
\* bound Measure, which is never negative, and the program exits
C33_Terminates ==
  /\ [][/\ TokenProgress
        /\ PopProgress
        /\ Measure >= 0
        /\ Measure' < Measure]_<<vars, rest>>
  /\ <>Exited

\* main has returned after two lines, the first given up at an UNKNOWN token
C33_Witness ==
  /\ Exited
  /\ exit_status = 0
  /\ start.lines = 2
  /\ Len(err) >= 1
  /\ err[1].kind = "unexpected character"
  /\ stdin = <<>>

====
